---------------------------- MODULE Spec2Model ----------------------------
(***************************************************************************)
(* Model of markdown-decision-tree: parse (pre-checks, parseLines,         *)
(* buildAST, the at-least-one-Q-node validation, assignQuestionIds).       *)
(*                                                                         *)
(* Strings are sequences of one-character strings, so that split, trim and *)
(* the regular expressions of the parser are computed character by         *)
(* character.  Objects live in a heap (a sequence of node records); an     *)
(* object reference is the index of the node in the heap.                  *)
(***************************************************************************)
EXTENDS Integers, Sequences, FiniteSets, TLC

VARIABLES
    markdown,      \* the argument of parse
    pc,            \* position in parse
    lines,         \* parse: const lines = normalized.split('\n')
    i,             \* loop index of parseLines (0-based), then of buildAST
    parsed,        \* parseLines: const parsed: ParsedLine[]
    heap,          \* the nodes created by buildAST, by reference
    doc,           \* buildAST: const doc: DSMDocument
    topicStack,    \* buildAST: const topicStack: TopicNode[]
    currentTopic,  \* buildAST: let currentTopic (0 is null)
    nodeStack,     \* buildAST: const nodeStack: StackItem[]
    error,         \* the ParseError thrown, NoError while none
    result,        \* what parse returned: [returned, doc]
    mermaid,       \* toMermaid: [returned, text, error], error the one thrown
    ink,           \* toInk: [returned, text, error], error the one thrown
    earlier        \* the calls of parse made before this one, oldest first

vars == <<markdown, pc, lines, i, parsed, heap, doc, topicStack,
          currentTopic, nodeStack, error, result, mermaid, ink, earlier>>

-----------------------------------------------------------------------------
(* Bounds of the checked inputs *)

MaxLines == 4
MaxIndent == 2
MaxHeading == 2
MaxContext == 1

MaxCalls == 3

-----------------------------------------------------------------------------
(* Generic helpers on sequences *)

Last(s) == s[Len(s)]

Front(s) == SubSeq(s, 1, Len(s) - 1)

Min(S) == CHOOSE x \in S : \A y \in S : x <= y

Max(S) == CHOOSE x \in S : \A y \in S : y <= x

Rep(c, n) == [k \in 1..n |-> c]

StartsWith(s, p) == Len(s) >= Len(p) /\ SubSeq(s, 1, Len(p)) = p

Drop(s, n) == SubSeq(s, n + 1, Len(s))

\* String.prototype.includes for a pattern p
Includes(s, p) ==
    \E k \in 1..(Len(s) - Len(p) + 1) : SubSeq(s, k, k + Len(p) - 1) = p

DigitChars == <<"0", "1", "2", "3", "4", "5", "6", "7", "8", "9">>

\* The decimal text of a number, as a template literal prints it
RECURSIVE Digits(_)
Digits(n) ==
    IF n < 10 THEN <<DigitChars[n + 1]>>
    ELSE Digits(n \div 10) \o <<DigitChars[(n % 10) + 1]>>

-----------------------------------------------------------------------------
(* ParseError *)

NoError == [message |-> <<>>, lineNumber |-> 0 - 1]

\* ParseError that hands the message to super() without the line suffix
ParseErrorNoSuffix(message, lineNumber) ==
    [message |-> message, lineNumber |-> lineNumber]

ParseError(message, lineNumber) ==
    [message |-> message \o <<" (line ">> \o Digits(lineNumber) \o <<")">>,
     lineNumber |-> lineNumber]

MsgNoQNode == <<"Document must contain at least one Q-node">>

MsgNoNewline == <<"Document must end with newline character">>

MsgTabs == <<"Tabs are not allowed; use spaces only">>

MsgIndent(spaces) ==
    <<"Indent must be multiple of 2 spaces (got ">> \o Digits(spaces) \o <<" spaces)">>

MsgEmptyQ == <<"**Q:** marker requires non-empty text">>

MsgEmptyIF == <<"**IF:** marker requires non-empty text">>

MsgUnbalanced == <<"Unbalanced bold markers in text">>

MsgCase == <<"Markers must be exactly **Q:** or **IF:** (case-sensitive)">>

MsgUnknown(word) == <<"Unknown bold marker (got: **">> \o word \o <<":**)">>

MsgMissingMarker == <<"List item must start with **Q:** or **IF:**">>

MsgInvalidHeading == <<"Invalid heading format">>

MsgInvalidLine == <<"Invalid line format">>

MsgOrphanQ == <<"Q-node at non-zero indent must have a parent">>

MsgQUnderQ == <<"Q-node cannot be direct child of another Q-node">>

MsgIfTopLevel == <<"**IF:** node cannot appear at indent level 0">>

MsgOrphanIf == <<"IF-node must have a parent Q-node">>

MsgIfUnderIf == <<"IF-node cannot be direct child of another IF-node">>

-----------------------------------------------------------------------------
(* parse: the pre-checks, normalisation and split *)

\* markdown.endsWith('\n')
EndsWithNewline(s) == Len(s) > 0 /\ Last(s) = "\n"

\* replace without the g flag: only the first "\r\n" is replaced
ReplaceFromFirstOnly(s, k) ==
    LET pairs == {j \in k..(Len(s) - 1) : s[j] = "\r" /\ s[j + 1] = "\n"}
    IN  IF pairs = {} THEN SubSeq(s, k, Len(s))
        ELSE SubSeq(s, k, Min(pairs) - 1) \o SubSeq(s, Min(pairs) + 1, Len(s))

\* markdown.replace(/\r\n/g, '\n') applied to s from position k on: every
\* "\r" that a "\n" follows is dropped
ReplaceFrom(s, k) ==
    LET positions == [j \in 1..(Len(s) - k + 1) |-> j + k - 1]
        Kept(j) == ~(s[j] = "\r" /\ j < Len(s) /\ s[j + 1] = "\n")
        kept == SelectSeq(positions, Kept)
    IN  [j \in 1..Len(kept) |-> s[kept[j]]]

ReplaceCRLF(s) == ReplaceFrom(s, 1)

\* normalized.split('\n'): n separators give n + 1 segments; from is the
\* start of the first segment, k the position from which separators are
\* looked for
SplitFrom(s, from, k) ==
    LET positions == [j \in 1..(Len(s) - k + 1) |-> j + k - 1]
        IsSeparator(j) == s[j] = "\n"
        seps == SelectSeq(positions, IsSeparator)
    IN  [j \in 1..(Len(seps) + 1) |->
            SubSeq(s, IF j = 1 THEN from ELSE seps[j - 1] + 1,
                      IF j > Len(seps) THEN Len(s) ELSE seps[j] - 1)]

Split(s) == SplitFrom(s, 1, 1)

\* lines[i].includes('\t')
HasTab(line) == \E k \in 1..Len(line) : line[k] = "\t"

\* The white space String.prototype.trim removes
IsWhiteSpace(c) == c \in {" ", "\t", "\n", "\r"}

\* String.prototype.trim: from the first to the last character that is not
\* white space
Trim(s) ==
    LET solid == {k \in 1..Len(s) : ~IsWhiteSpace(s[k])}
    IN  IF solid = {} THEN <<>> ELSE SubSeq(s, Min(solid), Max(solid))

\* The characters the regular expression atom . does not match
IsLineTerminator(c) == c \in {"\n", "\r"}

\* s matches /^.*$/
NoLineTerminator(s) == \A k \in 1..Len(s) : ~IsLineTerminator(s[k])

\* The number of leading characters of s that equal c
CountLeading(s, c) ==
    LET other == {k \in 1..Len(s) : s[k] # c}
    IN  IF other = {} THEN Len(s) ELSE Min(other) - 1

-----------------------------------------------------------------------------
(* parseLines: the regular expressions *)

\* line.match(/^(#{1,6}) (.+)$/): the groups, or <<>> for null
HeadingMatch(line) ==
    LET h == CountLeading(line, "#")
        rest == Drop(line, h + 1)
    IN  IF /\ h >= 1
           /\ h <= 6
           /\ Len(line) >= h + 2
           /\ line[h + 1] = " "
           /\ NoLineTerminator(rest)
        THEN <<Rep("#", h), rest>>
        ELSE <<>>

\* line.match(/^( *)- (.*)$/): the groups, or <<>> for null
ListMatch(line) ==
    LET sp == CountLeading(line, " ")
        rest == Drop(line, sp + 2)
    IN  IF /\ Len(line) >= sp + 2
           /\ line[sp + 1] = "-"
           /\ line[sp + 2] = " "
           /\ NoLineTerminator(rest)
        THEN <<Rep(" ", sp), rest>>
        ELSE <<>>

\* content.match(/^<marker> ?(.*)$/) for a literal marker: the group, in a
\* one-element sequence, or <<>> for null
MarkerMatch(content, marker) ==
    LET afterMarker == Drop(content, Len(marker))
        rest == IF afterMarker # <<>> /\ Head(afterMarker) = " "
                THEN Tail(afterMarker) ELSE afterMarker
    IN  IF StartsWith(content, marker) /\ NoLineTerminator(rest)
        THEN <<rest>>
        ELSE <<>>

QMarker == <<"*", "*", "Q", ":", "*", "*">>

IFMarker == <<"*", "*", "I", "F", ":", "*", "*">>

\* content.match(/^\*\*Q:\*\* ?(.*)$/)
QMatch(content) == MarkerMatch(content, QMarker)

\* content.match(/^\*\*IF:\*\* ?(.*)$/)
IfMatch(content) == MarkerMatch(content, IFMarker)

\* content.match(/^\*\*(q|Q):\*\*/i) is not null
CaseInsensitiveQ(content) ==
    /\ Len(content) >= 6
    /\ SubSeq(content, 1, 2) = <<"*", "*">>
    /\ content[3] \in {"q", "Q"}
    /\ SubSeq(content, 4, 6) = <<":", "*", "*">>

\* content.match(/^\*\*(if|If|iF|IF):\*\*/i) is not null
CaseInsensitiveIF(content) ==
    /\ Len(content) >= 7
    /\ SubSeq(content, 1, 2) = <<"*", "*">>
    /\ content[3] \in {"i", "I"}
    /\ content[4] \in {"f", "F"}
    /\ SubSeq(content, 5, 7) = <<":", "*", "*">>

\* content.match(/^\*\*([^*]+):\*\*/): the group, in a one-element sequence,
\* or <<>> for null.  The group ends where ":**" follows a run of one or more
\* characters other than "*"; the greedy [^*]+ takes the longest such run.
OtherBoldMatch(content) ==
    LET ends == {k \in 3..(Len(content) - 3) :
                    /\ \A j \in 3..k : content[j] # "*"
                    /\ SubSeq(content, k + 1, k + 3) = <<":", "*", "*">>}
    IN  IF StartsWith(content, <<"*", "*">>) /\ ends # {}
        THEN <<SubSeq(content, 3, Max(ends))>>
        ELSE <<>>

\* line.match(/^#+/) is not null
HashStart(line) == line # <<>> /\ Head(line) = "#"

\* validateNoBoldMarkers that never throws
validateNoBoldMarkersOff(text, lineNumber) == NoError

\* validateNoBoldMarkers: the error it throws, or NoError
validateNoBoldMarkers(text, lineNumber) ==
    IF Includes(text, <<"*", "*">>)
    THEN ParseError(MsgUnbalanced, lineNumber)
    ELSE NoError

-----------------------------------------------------------------------------
(* parseLines: the body of the loop, for the line at 0-based index idx.     *)
(* The value is [error, push]: the ParseError thrown (NoError if none) and  *)
(* the ParsedLine records pushed onto parsed (none or one).                 *)

Classified(pl) == [error |-> NoError, push |-> <<pl>>]

Thrown(e) == [error |-> e, push |-> <<>>]

\* MarkerLine without the trim() of the captured text
MarkerLineNoTrim(match, type, emptyMsg, lineNumber, indentLevel, spaces) ==
    LET text == match[1]
    IN  IF text = <<>>
        THEN Thrown(ParseError(emptyMsg, lineNumber))
        ELSE IF validateNoBoldMarkers(text, lineNumber) # NoError
             THEN Thrown(validateNoBoldMarkers(text, lineNumber))
             ELSE Classified([lineNumber |-> lineNumber, type |-> type,
                              level |-> indentLevel, text |-> text,
                              spaces |-> spaces])

\* The branch of a list item whose content starts with an exact marker
MarkerLine(match, type, emptyMsg, lineNumber, indentLevel, spaces) ==
    LET text == Trim(match[1])
    IN  IF text = <<>>
        THEN Thrown(ParseError(emptyMsg, lineNumber))
        ELSE IF validateNoBoldMarkers(text, lineNumber) # NoError
             THEN Thrown(validateNoBoldMarkers(text, lineNumber))
             ELSE Classified([lineNumber |-> lineNumber, type |-> type,
                              level |-> indentLevel, text |-> text,
                              spaces |-> spaces])

\* ListItemLine with the indent validated after the exact markers
ListItemLineIndentAfterMarkers(listMatch, lineNumber) ==
    LET spaces == Len(listMatch[1])
        content == listMatch[2]
        indentLevel == spaces \div 2
    IN  IF QMatch(content) # <<>>
        THEN MarkerLine(QMatch(content), "question", MsgEmptyQ,
                        lineNumber, indentLevel, spaces)
        ELSE IF IfMatch(content) # <<>>
        THEN MarkerLine(IfMatch(content), "if", MsgEmptyIF,
                        lineNumber, indentLevel, spaces)
        ELSE IF spaces % 2 # 0
        THEN Thrown(ParseError(MsgIndent(spaces), lineNumber))
        ELSE IF CaseInsensitiveQ(content) \/ CaseInsensitiveIF(content)
        THEN Thrown(ParseError(MsgCase, lineNumber))
        ELSE IF OtherBoldMatch(content) # <<>>
        THEN Thrown(ParseError(MsgUnknown(OtherBoldMatch(content)[1]), lineNumber))
        ELSE Thrown(ParseError(MsgMissingMarker, lineNumber))

\* ListItemLine with the check for other bold markers before the check for
\* case variants
ListItemLineOtherBoldFirst(listMatch, lineNumber) ==
    LET spaces == Len(listMatch[1])
        content == listMatch[2]
        indentLevel == spaces \div 2
    IN  IF spaces % 2 # 0
        THEN Thrown(ParseError(MsgIndent(spaces), lineNumber))
        ELSE IF QMatch(content) # <<>>
        THEN MarkerLine(QMatch(content), "question", MsgEmptyQ,
                        lineNumber, indentLevel, spaces)
        ELSE IF IfMatch(content) # <<>>
        THEN MarkerLine(IfMatch(content), "if", MsgEmptyIF,
                        lineNumber, indentLevel, spaces)
        ELSE IF OtherBoldMatch(content) # <<>>
        THEN Thrown(ParseError(MsgUnknown(OtherBoldMatch(content)[1]), lineNumber))
        ELSE IF CaseInsensitiveQ(content) \/ CaseInsensitiveIF(content)
        THEN Thrown(ParseError(MsgCase, lineNumber))
        ELSE Thrown(ParseError(MsgMissingMarker, lineNumber))

\* The branch of a line that matched the list item pattern
ListItemLine(listMatch, lineNumber) ==
    LET spaces == Len(listMatch[1])
        content == listMatch[2]
        indentLevel == spaces \div 2
    IN  IF spaces % 2 # 0
        THEN Thrown(ParseError(MsgIndent(spaces), lineNumber))
        ELSE IF QMatch(content) # <<>>
        THEN MarkerLine(QMatch(content), "question", MsgEmptyQ,
                        lineNumber, indentLevel, spaces)
        ELSE IF IfMatch(content) # <<>>
        THEN MarkerLine(IfMatch(content), "if", MsgEmptyIF,
                        lineNumber, indentLevel, spaces)
        ELSE IF CaseInsensitiveQ(content) \/ CaseInsensitiveIF(content)
        THEN Thrown(ParseError(MsgCase, lineNumber))
        ELSE IF OtherBoldMatch(content) # <<>>
        THEN Thrown(ParseError(MsgUnknown(OtherBoldMatch(content)[1]), lineNumber))
        ELSE Thrown(ParseError(MsgMissingMarker, lineNumber))

parseLinesBody(ls, idx) ==
    LET lineNumber == idx + 1
        line == ls[idx + 1]
    IN  IF idx = Len(ls) - 1 /\ line = <<>>
        THEN [error |-> NoError, push |-> <<>>]
        ELSE IF Trim(line) = <<>>
        THEN Classified([lineNumber |-> lineNumber, type |-> "blank"])
        ELSE IF HeadingMatch(line) # <<>>
        THEN Classified([lineNumber |-> lineNumber, type |-> "heading",
                         level |-> Len(HeadingMatch(line)[1]),
                         text |-> HeadingMatch(line)[2]])
        ELSE IF ListMatch(line) # <<>>
        THEN ListItemLine(ListMatch(line), lineNumber)
        ELSE IF HashStart(line)
        THEN Thrown(ParseError(MsgInvalidHeading, lineNumber))
        ELSE Thrown(ParseError(MsgInvalidLine, lineNumber))

-----------------------------------------------------------------------------
(* buildAST: the body of the loop, on the builder state                      *)
(* b = [doc, heap, topicStack, currentTopic, nodeStack, error]               *)

NewBuilder ==
    [doc |-> [rootQuestions |-> <<>>, topics |-> <<>>],
     heap |-> <<>>,
     topicStack |-> <<>>,
     currentTopic |-> 0,
     nodeStack |-> <<>>,
     error |-> NoError]

\* while (topicStack.length > 0 && top.level >= level) topicStack.pop()
RECURSIVE PopTopics(_, _, _)

\* PopTopics with > in place of >=
PopTopicsStrict(h, stack, level) ==
    IF stack # <<>> /\ h[Last(stack)].level > level
    THEN PopTopics(h, Front(stack), level)
    ELSE stack

PopTopics(h, stack, level) ==
    IF stack # <<>> /\ h[Last(stack)].level >= level
    THEN PopTopics(h, Front(stack), level)
    ELSE stack

\* while (nodeStack.length > 0 && top.indentLevel >= indentLevel) nodeStack.pop()
RECURSIVE PopNodes(_, _)

\* PopNodes with > in place of >=
PopNodesStrict(stack, indentLevel) ==
    IF stack # <<>> /\ Last(stack).indentLevel > indentLevel
    THEN PopNodes(Front(stack), indentLevel)
    ELSE stack

PopNodes(stack, indentLevel) ==
    IF stack # <<>> /\ Last(stack).indentLevel >= indentLevel
    THEN PopNodes(Front(stack), indentLevel)
    ELSE stack

\* PushField that pushes the reference twice
PushFieldTwice(h, a, fld, ref) ==
    [h EXCEPT ![a] = [@ EXCEPT ![fld] = Append(Append(@, ref), ref)]]

\* array.push(ref) on a field of the node at address a
PushField(h, a, fld, ref) ==
    [h EXCEPT ![a] = [@ EXCEPT ![fld] = Append(@, ref)]]

\* buildHeading without nodeStack.length = 0: the open chain stays open
buildHeadingKeepsNodes(b, line) ==
    LET topic == [type |-> "topic", level |-> line.level, title |-> line.text,
                  children |-> <<>>, questions |-> <<>>,
                  lineNumber |-> line.lineNumber]
        t == Len(b.heap) + 1
        h1 == Append(b.heap, topic)
        popped == PopTopics(h1, b.topicStack, topic.level)
    IN  IF b.topicStack = <<>>
        THEN [b EXCEPT !.heap = h1,
                       !.nodeStack = b.nodeStack,
                       !.doc.topics = Append(@, t),
                       !.topicStack = <<t>>,
                       !.currentTopic = t]
        ELSE IF popped # <<>>
        THEN [b EXCEPT !.heap = PushField(h1, Last(popped), "children", t),
                       !.nodeStack = b.nodeStack,
                       !.topicStack = Append(popped, t),
                       !.currentTopic = t]
        ELSE [b EXCEPT !.heap = h1,
                       !.nodeStack = b.nodeStack,
                       !.doc.topics = Append(@, t),
                       !.topicStack = <<t>>,
                       !.currentTopic = t]

\* buildHeading without the loop that pops the topics of level >= the heading's
buildHeadingNoPop(b, line) ==
    LET topic == [type |-> "topic", level |-> line.level, title |-> line.text,
                  children |-> <<>>, questions |-> <<>>,
                  lineNumber |-> line.lineNumber]
        t == Len(b.heap) + 1
        h1 == Append(b.heap, topic)
        popped == b.topicStack
    IN  IF b.topicStack = <<>>
        THEN [b EXCEPT !.heap = h1,
                       !.nodeStack = <<>>,
                       !.doc.topics = Append(@, t),
                       !.topicStack = <<t>>,
                       !.currentTopic = t]
        ELSE IF popped # <<>>
        THEN [b EXCEPT !.heap = PushField(h1, Last(popped), "children", t),
                       !.nodeStack = <<>>,
                       !.topicStack = Append(popped, t),
                       !.currentTopic = t]
        ELSE [b EXCEPT !.heap = h1,
                       !.nodeStack = <<>>,
                       !.doc.topics = Append(@, t),
                       !.topicStack = <<t>>,
                       !.currentTopic = t]

buildHeading(b, line) ==
    LET topic == [type |-> "topic", level |-> line.level, title |-> line.text,
                  children |-> <<>>, questions |-> <<>>,
                  lineNumber |-> line.lineNumber]
        t == Len(b.heap) + 1
        h1 == Append(b.heap, topic)
        popped == PopTopics(h1, b.topicStack, topic.level)
    IN  IF b.topicStack = <<>>
        THEN [b EXCEPT !.heap = h1,
                       !.nodeStack = <<>>,
                       !.doc.topics = Append(@, t),
                       !.topicStack = <<t>>,
                       !.currentTopic = t]
        ELSE IF popped # <<>>
        THEN [b EXCEPT !.heap = PushField(h1, Last(popped), "children", t),
                       !.nodeStack = <<>>,
                       !.topicStack = Append(popped, t),
                       !.currentTopic = t]
        ELSE [b EXCEPT !.heap = h1,
                       !.nodeStack = <<>>,
                       !.doc.topics = Append(@, t),
                       !.topicStack = <<t>>,
                       !.currentTopic = t]

\* buildQuestion that gives a top-level question to the outermost open topic
buildQuestionOutermostTopic(b, line) ==
    LET qNode == [type |-> "question", id |-> <<>>, text |-> line.text,
                  children |-> <<>>, lineNumber |-> line.lineNumber]
        q == Len(b.heap) + 1
        h1 == Append(b.heap, qNode)
        indentLevel == line.level
        popped == PopNodes(b.nodeStack, indentLevel)
    IN  IF indentLevel = 0
        THEN IF b.currentTopic # 0
             THEN [b EXCEPT !.heap = PushField(h1, Head(b.topicStack), "questions", q),
                            !.nodeStack = <<[node |-> q, indentLevel |-> 0]>>]
             ELSE [b EXCEPT !.heap = h1,
                            !.doc.rootQuestions = Append(@, q),
                            !.nodeStack = <<[node |-> q, indentLevel |-> 0]>>]
        ELSE IF popped = <<>>
        THEN [b EXCEPT !.heap = h1, !.nodeStack = popped,
                       !.error = ParseError(MsgOrphanQ, line.lineNumber)]
        ELSE IF h1[Last(popped).node].type = "question"
        THEN [b EXCEPT !.heap = h1, !.nodeStack = popped,
                       !.error = ParseError(MsgQUnderQ, line.lineNumber)]
        ELSE [b EXCEPT !.heap = PushField(h1, Last(popped).node, "children", q),
                       !.nodeStack = Append(popped,
                                            [node |-> q, indentLevel |-> indentLevel])]

\* buildQuestion without the check of the parent's type
buildQuestionAnyParent(b, line) ==
    LET qNode == [type |-> "question", id |-> <<>>, text |-> line.text,
                  children |-> <<>>, lineNumber |-> line.lineNumber]
        q == Len(b.heap) + 1
        h1 == Append(b.heap, qNode)
        indentLevel == line.level
        popped == PopNodes(b.nodeStack, indentLevel)
    IN  IF indentLevel = 0
        THEN IF b.currentTopic # 0
             THEN [b EXCEPT !.heap = PushField(h1, b.currentTopic, "questions", q),
                            !.nodeStack = <<[node |-> q, indentLevel |-> 0]>>]
             ELSE [b EXCEPT !.heap = h1,
                            !.doc.rootQuestions = Append(@, q),
                            !.nodeStack = <<[node |-> q, indentLevel |-> 0]>>]
        ELSE IF popped = <<>>
        THEN [b EXCEPT !.heap = h1, !.nodeStack = popped,
                       !.error = ParseError(MsgOrphanQ, line.lineNumber)]
        ELSE [b EXCEPT !.heap = PushField(h1, Last(popped).node, "children", q),
                       !.nodeStack = Append(popped,
                                            [node |-> q, indentLevel |-> indentLevel])]

\* buildQuestion without nodeStack.length = 0 for a top-level Q-node
buildQuestionNoReset(b, line) ==
    LET qNode == [type |-> "question", id |-> <<>>, text |-> line.text,
                  children |-> <<>>, lineNumber |-> line.lineNumber]
        q == Len(b.heap) + 1
        h1 == Append(b.heap, qNode)
        indentLevel == line.level
        popped == PopNodes(b.nodeStack, indentLevel)
    IN  IF indentLevel = 0
        THEN IF b.currentTopic # 0
             THEN [b EXCEPT !.heap = PushField(h1, b.currentTopic, "questions", q),
                            !.nodeStack = Append(b.nodeStack,
                                                [node |-> q, indentLevel |-> 0])]
             ELSE [b EXCEPT !.heap = h1,
                            !.doc.rootQuestions = Append(@, q),
                            !.nodeStack = Append(b.nodeStack,
                                                [node |-> q, indentLevel |-> 0])]
        ELSE IF popped = <<>>
        THEN [b EXCEPT !.heap = h1, !.nodeStack = popped,
                       !.error = ParseError(MsgOrphanQ, line.lineNumber)]
        ELSE IF h1[Last(popped).node].type = "question"
        THEN [b EXCEPT !.heap = h1, !.nodeStack = popped,
                       !.error = ParseError(MsgQUnderQ, line.lineNumber)]
        ELSE [b EXCEPT !.heap = PushField(h1, Last(popped).node, "children", q),
                       !.nodeStack = Append(popped,
                                            [node |-> q, indentLevel |-> indentLevel])]

\* buildQuestion that gives a top-level Q-node to the topic that encloses
\* the current topic, when there is one
buildQuestionEnclosingTopic(b, line) ==
    LET qNode == [type |-> "question", id |-> <<>>, text |-> line.text,
                  children |-> <<>>, lineNumber |-> line.lineNumber]
        q == Len(b.heap) + 1
        h1 == Append(b.heap, qNode)
        indentLevel == line.level
        popped == PopNodes(b.nodeStack, indentLevel)
        owner == IF Len(b.topicStack) > 1
                 THEN b.topicStack[Len(b.topicStack) - 1]
                 ELSE b.currentTopic
    IN  IF indentLevel = 0
        THEN IF b.currentTopic # 0
             THEN [b EXCEPT !.heap = PushField(h1, owner, "questions", q),
                            !.nodeStack = <<[node |-> q, indentLevel |-> 0]>>]
             ELSE [b EXCEPT !.heap = h1,
                            !.doc.rootQuestions = Append(@, q),
                            !.nodeStack = <<[node |-> q, indentLevel |-> 0]>>]
        ELSE IF popped = <<>>
        THEN [b EXCEPT !.heap = h1, !.nodeStack = popped,
                       !.error = ParseError(MsgOrphanQ, line.lineNumber)]
        ELSE IF h1[Last(popped).node].type = "question"
        THEN [b EXCEPT !.heap = h1, !.nodeStack = popped,
                       !.error = ParseError(MsgQUnderQ, line.lineNumber)]
        ELSE [b EXCEPT !.heap = PushField(h1, Last(popped).node, "children", q),
                       !.nodeStack = Append(popped,
                                            [node |-> q, indentLevel |-> indentLevel])]

buildQuestion(b, line) ==
    LET qNode == [type |-> "question", id |-> <<>>, text |-> line.text,
                  children |-> <<>>, lineNumber |-> line.lineNumber]
        q == Len(b.heap) + 1
        h1 == Append(b.heap, qNode)
        indentLevel == line.level
        popped == PopNodes(b.nodeStack, indentLevel)
    IN  IF indentLevel = 0
        THEN IF b.currentTopic # 0
             THEN [b EXCEPT !.heap = PushField(h1, b.currentTopic, "questions", q),
                            !.nodeStack = <<[node |-> q, indentLevel |-> 0]>>]
             ELSE [b EXCEPT !.heap = h1,
                            !.doc.rootQuestions = Append(@, q),
                            !.nodeStack = <<[node |-> q, indentLevel |-> 0]>>]
        ELSE IF popped = <<>>
        THEN [b EXCEPT !.heap = h1, !.nodeStack = popped,
                       !.error = ParseError(MsgOrphanQ, line.lineNumber)]
        ELSE IF h1[Last(popped).node].type = "question"
        THEN [b EXCEPT !.heap = h1, !.nodeStack = popped,
                       !.error = ParseError(MsgQUnderQ, line.lineNumber)]
        ELSE [b EXCEPT !.heap = PushField(h1, Last(popped).node, "children", q),
                       !.nodeStack = Append(popped,
                                            [node |-> q, indentLevel |-> indentLevel])]

\* buildIf without the indent-0 check
buildIfNoTopLevelCheck(b, line) ==
    LET ifNode == [type |-> "if", answer |-> line.text,
                   children |-> <<>>, lineNumber |-> line.lineNumber]
        f == Len(b.heap) + 1
        h1 == Append(b.heap, ifNode)
        indentLevel == line.level
        popped == PopNodes(b.nodeStack, indentLevel)
    IN  IF popped = <<>>
        THEN [b EXCEPT !.heap = h1, !.nodeStack = popped,
                       !.error = ParseError(MsgOrphanIf, line.lineNumber)]
        ELSE IF h1[Last(popped).node].type = "if"
        THEN [b EXCEPT !.heap = h1, !.nodeStack = popped,
                       !.error = ParseError(MsgIfUnderIf, line.lineNumber)]
        ELSE [b EXCEPT !.heap = PushField(h1, Last(popped).node, "children", f),
                       !.nodeStack = Append(popped,
                                            [node |-> f, indentLevel |-> indentLevel])]

buildIf(b, line) ==
    LET ifNode == [type |-> "if", answer |-> line.text,
                   children |-> <<>>, lineNumber |-> line.lineNumber]
        f == Len(b.heap) + 1
        h1 == Append(b.heap, ifNode)
        indentLevel == line.level
        popped == PopNodes(b.nodeStack, indentLevel)
    IN  IF indentLevel = 0
        THEN [b EXCEPT !.heap = h1,
                       !.error = ParseError(MsgIfTopLevel, line.lineNumber)]
        ELSE IF popped = <<>>
        THEN [b EXCEPT !.heap = h1, !.nodeStack = popped,
                       !.error = ParseError(MsgOrphanIf, line.lineNumber)]
        ELSE IF h1[Last(popped).node].type = "if"
        THEN [b EXCEPT !.heap = h1, !.nodeStack = popped,
                       !.error = ParseError(MsgIfUnderIf, line.lineNumber)]
        ELSE [b EXCEPT !.heap = PushField(h1, Last(popped).node, "children", f),
                       !.nodeStack = Append(popped,
                                            [node |-> f, indentLevel |-> indentLevel])]

\* buildASTBody in which a blank line clears the node stack
buildASTBodyBlankResets(b, line) ==
    IF line.type = "blank" THEN [b EXCEPT !.nodeStack = <<>>]
    ELSE IF line.type = "heading" THEN buildHeading(b, line)
    ELSE IF line.type = "question" THEN buildQuestion(b, line)
    ELSE IF line.type = "if" THEN buildIf(b, line)
    ELSE b

buildASTBody(b, line) ==
    IF line.type = "blank" THEN b
    ELSE IF line.type = "heading" THEN buildHeading(b, line)
    ELSE IF line.type = "question" THEN buildQuestion(b, line)
    ELSE IF line.type = "if" THEN buildIf(b, line)
    ELSE b

-----------------------------------------------------------------------------
(* countQuestions, countNestedQuestions, assignQuestionIds *)

RECURSIVE countNestedQuestions(_, _)
RECURSIVE countNestedIn(_, _)
RECURSIVE countNestedOfIfs(_, _)

\* the sum of countNestedQuestions over a list of Q-nodes
countNestedIn(h, qs) ==
    IF qs = <<>> THEN 0
    ELSE countNestedQuestions(h, Head(qs)) + countNestedIn(h, Tail(qs))

\* the loop over q.children
countNestedOfIfs(h, ifs) ==
    IF ifs = <<>> THEN 0
    ELSE Len(h[Head(ifs)].children)
         + countNestedIn(h, h[Head(ifs)].children)
         + countNestedOfIfs(h, Tail(ifs))

countNestedQuestions(h, q) == countNestedOfIfs(h, h[q].children)

RECURSIVE countQuestions(_, _)
RECURSIVE countQuestionsIn(_, _)

\* the sum of countQuestions over a list of topics
countQuestionsIn(h, ts) ==
    IF ts = <<>> THEN 0
    ELSE countQuestions(h, Head(ts)) + countQuestionsIn(h, Tail(ts))

\* countQuestions without the loop over topic.children
countQuestionsOwnOnly(h, topic) ==
    Len(h[topic].questions) + countNestedIn(h, h[topic].questions)

countQuestions(h, topic) ==
    Len(h[topic].questions)
    + countQuestionsIn(h, h[topic].children)
    + countNestedIn(h, h[topic].questions)

\* doc.rootQuestions.length === 0 && doc.topics.every(t => countQuestions(t) === 0)
NoQNode(h, d) ==
    /\ Len(d.rootQuestions) = 0
    /\ \A k \in 1..Len(d.topics) : countQuestions(h, d.topics[k]) = 0

\* assignQuestionIds works on s = [heap, counter]
RECURSIVE visitQuestion(_, _)
RECURSIVE visitQuestionList(_, _)
RECURSIVE visitIfList(_, _)

\* for (const q of ...) visitQuestion(q)
visitQuestionList(s, qs) ==
    IF qs = <<>> THEN s
    ELSE visitQuestionList(visitQuestion(s, Head(qs)), Tail(qs))

\* for (const ifNode of q.children) for (const childQ of ifNode.children) ...
visitIfList(s, ifs) ==
    IF ifs = <<>> THEN s
    ELSE visitIfList(visitQuestionList(s, s.heap[Head(ifs)].children), Tail(ifs))

\* visitQuestion that numbers the question after its descendants
visitQuestionPostOrder(s, q) ==
    LET s1 == visitIfList(s, s.heap[q].children)
    IN  [heap |-> [s1.heap EXCEPT ![q].id = <<"Q">> \o Digits(s1.counter)],
         counter |-> s1.counter + 1]

visitQuestion(s, q) ==
    LET s1 == [heap |-> [s.heap EXCEPT ![q].id = <<"Q">> \o Digits(s.counter)],
               counter |-> s.counter + 1]
    IN  visitIfList(s1, s1.heap[q].children)

RECURSIVE visitTopic(_, _)
RECURSIVE visitTopicList(_, _)

\* for (const topic of ...) visitTopic(topic)
visitTopicList(s, ts) ==
    IF ts = <<>> THEN s
    ELSE visitTopicList(visitTopic(s, Head(ts)), Tail(ts))

\* visitTopic with the two loops exchanged: sub-topics before own questions
visitTopicChildrenFirst(s, topic) ==
    visitQuestionList(visitTopicList(s, s.heap[topic].children),
                      s.heap[topic].questions)

visitTopic(s, topic) ==
    visitTopicList(visitQuestionList(s, s.heap[topic].questions),
                   s.heap[topic].children)

\* assignQuestionIds with the counter kept outside the function: it goes on
\* from the ids given in the calls made before
assignQuestionIdsSharedCounter(h, d) ==
    LET QuestionsOfCall(k) ==
            {<<k, a>> : a \in {a \in 1..Len(earlier[k].outcome.heap) :
                                  earlier[k].outcome.heap[a].type = "question"}}
        given == UNION {QuestionsOfCall(k) : k \in 1..Len(earlier)}
    IN  visitTopicList(visitQuestionList([heap |-> h,
                                          counter |-> 1 + Cardinality(given)],
                                         d.rootQuestions),
                       d.topics).heap

assignQuestionIds(h, d) ==
    visitTopicList(visitQuestionList([heap |-> h, counter |-> 1], d.rootQuestions),
                   d.topics).heap

-----------------------------------------------------------------------------
(* converters: collectAllQuestions, escapeForMermaid, generateMermaid       *)

RECURSIVE collectQuestion(_, _)
RECURSIVE collectQuestionList(_, _)
RECURSIVE collectIfList(_, _)
RECURSIVE collectTopic(_, _)
RECURSIVE collectTopicList(_, _)

\* for (const q of ...) visitQuestion(q): the Q-nodes pushed, in order
collectQuestionList(h, qs) ==
    IF qs = <<>> THEN <<>>
    ELSE collectQuestion(h, Head(qs)) \o collectQuestionList(h, Tail(qs))

\* for (const ifNode of q.children) for (const childQ of ifNode.children) ...
collectIfList(h, ifs) ==
    IF ifs = <<>> THEN <<>>
    ELSE collectQuestionList(h, h[Head(ifs)].children) \o collectIfList(h, Tail(ifs))

\* visitQuestion of collectAllQuestions
collectQuestion(h, q) == <<q>> \o collectIfList(h, h[q].children)

\* for (const topic of ...) visitTopic(topic)
collectTopicList(h, ts) ==
    IF ts = <<>> THEN <<>>
    ELSE collectTopic(h, Head(ts)) \o collectTopicList(h, Tail(ts))

\* visitTopic of collectAllQuestions
collectTopic(h, topic) ==
    collectQuestionList(h, h[topic].questions)
    \o collectTopicList(h, h[topic].children)

\* collectAllQuestions with the two loops exchanged: topics before root
\* questions
collectAllQuestionsTopicsFirst(h, d) ==
    collectTopicList(h, d.topics) \o collectQuestionList(h, d.rootQuestions)

collectAllQuestions(h, d) ==
    collectQuestionList(h, d.rootQuestions) \o collectTopicList(h, d.topics)

\* text.replace(/c/g, by) for a single character c
RECURSIVE ReplaceAll(_, _, _)
ReplaceAll(text, c, by) ==
    IF text = <<>> THEN <<>>
    ELSE (IF Head(text) = c THEN by ELSE <<Head(text)>>)
         \o ReplaceAll(Tail(text), c, by)

Quot == <<"&", "q", "u", "o", "t", ";">>

Lt == <<"&", "l", "t", ";">>

Gt == <<"&", "g", "t", ";">>

LBracket == <<"#", "9", "1", ";">>

RBracket == <<"#", "9", "3", ";">>

\* escapeForMermaid with a sixth replacement, of & by &amp;, after the five
escapeForMermaidAmpersandLast(text) ==
    ReplaceAll(ReplaceAll(ReplaceAll(ReplaceAll(ReplaceAll(ReplaceAll(
        text, "\"", Quot), "<", Lt), ">", Gt), "[", LBracket), "]", RBracket),
        "&", <<"&", "a", "m", "p", ";">>)

escapeForMermaid(text) ==
    ReplaceAll(ReplaceAll(ReplaceAll(ReplaceAll(ReplaceAll(
        text, "\"", Quot), "<", Lt), ">", Gt), "[", LBracket), "]", RBracket)

GraphTD == <<"g", "r", "a", "p", "h", " ", "T", "D">>

FourSpaces == <<" ", " ", " ", " ">>

\* `    ${q.id}["Q: ${escapedText}"]`
NodeLine(id, escapedText) ==
    FourSpaces \o id \o <<"[", "\"", "Q", ":", " ">> \o escapedText \o <<"\"", "]">>

\* `    ${q.id} -->|${ifNode.answer}| ${childQ.id}`
EdgeLine(id, answer, childId) ==
    FourSpaces \o id \o <<" ", "-", "-", ">", "|">> \o answer \o <<"|", " ">>
    \o childId

\* the loop that generates the node definitions
RECURSIVE nodeLines(_, _)
nodeLines(h, qs) ==
    IF qs = <<>> THEN <<>>
    ELSE <<NodeLine(h[Head(qs)].id, escapeForMermaid(h[Head(qs)].text))>>
         \o nodeLines(h, Tail(qs))

RECURSIVE generateEdges(_, _)
RECURSIVE edgesOfIfs(_, _, _)
RECURSIVE edgesOfChildren(_, _, _, _)

\* edgesOfChildren that escapes the answer as a node text is escaped
edgesOfChildrenEscaped(h, q, ifNode, cs) ==
    IF cs = <<>> THEN <<>>
    ELSE <<EdgeLine(h[q].id, escapeForMermaid(h[ifNode].answer), h[Head(cs)].id)>>
         \o generateEdges(h, Head(cs))
         \o edgesOfChildren(h, q, ifNode, Tail(cs))

\* edgesOfChildren that descends into the child before pushing its edge
edgesOfChildrenPostOrder(h, q, ifNode, cs) ==
    IF cs = <<>> THEN <<>>
    ELSE generateEdges(h, Head(cs))
         \o <<EdgeLine(h[q].id, h[ifNode].answer, h[Head(cs)].id)>>
         \o edgesOfChildren(h, q, ifNode, Tail(cs))

\* the inner loop of generateEdges over ifNode.children
edgesOfChildren(h, q, ifNode, cs) ==
    IF cs = <<>> THEN <<>>
    ELSE <<EdgeLine(h[q].id, h[ifNode].answer, h[Head(cs)].id)>>
         \o generateEdges(h, Head(cs))
         \o edgesOfChildren(h, q, ifNode, Tail(cs))

\* the outer loop of generateEdges over q.children
edgesOfIfs(h, q, ifs) ==
    IF ifs = <<>> THEN <<>>
    ELSE edgesOfChildren(h, q, Head(ifs), h[Head(ifs)].children)
         \o edgesOfIfs(h, q, Tail(ifs))

generateEdges(h, q) == edgesOfIfs(h, q, h[q].children)

RECURSIVE edgesOfQuestions(_, _)
RECURSIVE visitTopicForEdges(_, _)
RECURSIVE edgesOfTopics(_, _)

\* for (const q of ...) generateEdges(q)
edgesOfQuestions(h, qs) ==
    IF qs = <<>> THEN <<>>
    ELSE generateEdges(h, Head(qs)) \o edgesOfQuestions(h, Tail(qs))

\* for (const t of ...) visitTopicForEdges(t)
edgesOfTopics(h, ts) ==
    IF ts = <<>> THEN <<>>
    ELSE visitTopicForEdges(h, Head(ts)) \o edgesOfTopics(h, Tail(ts))

visitTopicForEdges(h, t) ==
    edgesOfQuestions(h, h[t].questions) \o edgesOfTopics(h, h[t].children)

\* array.join(sep)
RECURSIVE Join(_, _)
Join(ls, sep) ==
    IF ls = <<>> THEN <<>>
    ELSE IF Len(ls) = 1 THEN ls[1]
    ELSE ls[1] \o sep \o Join(Tail(ls), sep)

generateMermaid(h, d) ==
    Join(<<GraphTD>>
         \o nodeLines(h, collectAllQuestions(h, d))
         \o edgesOfQuestions(h, d.rootQuestions)
         \o edgesOfTopics(h, d.topics),
         <<"\n">>)

-----------------------------------------------------------------------------
(* converters: generateInk *)

RECURSIVE generateQuestion(_, _, _)
RECURSIVE choicesOf(_, _, _)
RECURSIVE followUps(_, _, _)

\* '    '.repeat(indent)
Prefix(indent) == Rep(" ", 4 * indent)

\* `${prefix}Q: ${q.text}`
QuestionLine(prefix, text) == prefix \o <<"Q", ":", " ">> \o text

\* `${prefix}+ ${ifNode.answer}`
ChoiceLine(prefix, answer) == prefix \o <<"+", " ">> \o answer

\* for (const childQ of ifNode.children) generateQuestion(childQ, indent + 1)
followUps(h, cs, indent) ==
    IF cs = <<>> THEN <<>>
    ELSE generateQuestion(h, Head(cs), indent + 1)
         \o followUps(h, Tail(cs), indent)

\* for (const ifNode of q.children): the choice line, then the follow-ups
choicesOf(h, ifs, indent) ==
    IF ifs = <<>> THEN <<>>
    ELSE <<ChoiceLine(Prefix(indent), h[Head(ifs)].answer)>>
         \o followUps(h, h[Head(ifs)].children, indent)
         \o choicesOf(h, Tail(ifs), indent)

\* generateQuestion that pushes the blank line whatever q.children holds
generateQuestionBlankAlways(h, q, indent) ==
    <<QuestionLine(Prefix(indent), h[q].text)>>
    \o <<<<>>>> \o choicesOf(h, h[q].children, indent)

\* generateQuestion: the lines pushed for q and what is below it
generateQuestion(h, q, indent) ==
    <<QuestionLine(Prefix(indent), h[q].text)>>
    \o (IF Len(h[q].children) > 0
        THEN <<<<>>>> \o choicesOf(h, h[q].children, indent)
        ELSE <<>>)

RECURSIVE inkOfQuestions(_, _, _)
RECURSIVE generateTopic(_, _)
RECURSIVE inkOfTopics(_, _)

\* for (const q of ...) generateQuestion(q, indent)
inkOfQuestions(h, qs, indent) ==
    IF qs = <<>> THEN <<>>
    ELSE generateQuestion(h, Head(qs), indent) \o inkOfQuestions(h, Tail(qs), indent)

\* for (const t of ...) generateTopic(t)
inkOfTopics(h, ts) ==
    IF ts = <<>> THEN <<>>
    ELSE generateTopic(h, Head(ts)) \o inkOfTopics(h, Tail(ts))

\* generateTopic that renders the questions of a topic one level deeper
generateTopicIndented(h, topic) ==
    inkOfQuestions(h, h[topic].questions, 1) \o inkOfTopics(h, h[topic].children)

\* generateTopic that renders the title of the topic above its questions
generateTopicTitled(h, topic) ==
    <<h[topic].title>>
    \o inkOfQuestions(h, h[topic].questions, 0)
    \o inkOfTopics(h, h[topic].children)

generateTopic(h, topic) ==
    inkOfQuestions(h, h[topic].questions, 0) \o inkOfTopics(h, h[topic].children)

\* generateInk with the two loops exchanged: topics before root questions
generateInkTopicsFirst(h, d) ==
    Join(inkOfTopics(h, d.topics) \o inkOfQuestions(h, d.rootQuestions, 0),
         <<"\n">>)

generateInk(h, d) ==
    Join(inkOfQuestions(h, d.rootQuestions, 0) \o inkOfTopics(h, d.topics),
         <<"\n">>)

-----------------------------------------------------------------------------
(* The inputs of the checked runs *)

LF == <<"\n">>

CRLF == <<"\r", "\n">>

\* the lines, each followed by the terminator
RECURSIVE JoinLines(_, _)
JoinLines(ls, term) ==
    IF ls = <<>> THEN <<>> ELSE Head(ls) \o term \o JoinLines(Tail(ls), term)

ListItem(spaces, content) == Rep(" ", spaces) \o <<"-", " ">> \o content

HeadingLine(level) == Rep("#", level) \o <<" ", "T">>

QLine(level) == ListItem(2 * level, QMarker \o <<" ", "X">>)

IfLine(level) == ListItem(2 * level, IFMarker \o <<" ", "Y">>)

\* question and condition lines at every nesting depth
NestLines ==
    {QLine(n) : n \in 0..MaxIndent} \cup {IfLine(n) : n \in 0..MaxIndent}

\* headings of every level, with a top-level question, a top-level condition
\* and a nested condition
TopicLines ==
    {HeadingLine(l) : l \in 1..MaxHeading} \cup {QLine(0), IfLine(0), IfLine(1)}

BlankLines == {<<>>, <<" ">>, <<" ", " ">>}

\* list item contents with every marker shape
MarkerContents ==
    {<<"*", "*", "q", ":", "*", "*", " ", "X">>,
     <<"*", "*", "I", "f", ":", "*", "*", " ", "Y">>,
     <<"*", "*", "i", "f", ":", "*", "*">>,
     <<"*", "*", "W", ":", "*", "*", " ", "X">>,
     <<"*", "*", "Q", " ", ":", "*", "*", " ", "X">>,
     <<"*", "*", "I", "F", ":", "X", ":", "*", "*">>,
     <<"*", "*", ":", "*", "*", " ", "X">>,
     <<"*", "*", "W", "*", "Z", ":", "*", "*">>,
     <<"*", "*", "Q", ":", "*", " ", "X">>,
     <<"X">>,
     <<"X", " ", "*", "*", "W", "*", "*", " ", "X">>,
     <<"X", " ", "*", "*", "Q", ":", "*", "*", " ", "X">>,
     <<"Q", ":", " ", "X">>,
     QMarker,
     QMarker \o <<" ", " ", " ">>,
     QMarker \o <<"X">>,
     QMarker \o <<" ", " ", "X", " ">>,
     QMarker \o <<" ", "X", "*", "*", "Z">>,
     QMarker \o <<" ", "X", "*", "Z">>,
     QMarker \o <<" ", "*", "*">>,
     IFMarker,
     IFMarker \o <<" ">>,
     IFMarker \o <<"Y">>,
     IFMarker \o <<" ", "Y", "*", "*">>,
     IFMarker \o <<" ">> \o QMarker \o <<" ", "X">>}

\* lines that are no list item, heading or blank line
StrayLines ==
    {<<"X">>,
     <<" ", "X">>,
     <<"#", "T">>,
     <<"#", " ">>,
     <<"#">>,
     <<" ", "#", " ", "T">>,
     Rep("#", 6) \o <<" ", "T">>,
     Rep("#", 7) \o <<" ", "T">>,
     <<"-", "X">>,
     <<"-">>,
     <<"*", " ", "X">>,
     <<"X", "\r">>,
     <<"\r">>,
     QLine(0) \o <<"\r", "X">>}

OddIndentLines ==
    {ListItem(1, QMarker \o <<" ", "X">>),
     ListItem(3, IFMarker \o <<" ", "Y">>),
     ListItem(1, <<"X">>),
     ListItem(3, <<"*", "*", "q", ":", "*", "*", " ", "X">>),
     ListItem(5, QMarker)}

TabLines ==
    {<<"\t">> \o IfLine(0),
     QLine(0) \o <<"\t", "X">>,
     <<"\t">>}

LexLines ==
    NestLines
    \cup TopicLines
    \cup BlankLines
    \cup {ListItem(0, c) : c \in MarkerContents}
    \cup StrayLines
    \cup OddIndentLines
    \cup TabLines


\* the lines that precede a line of LexLines
ContextLines ==
    {QLine(0), IfLine(0), <<>>, <<"X">>, ListItem(1, QMarker \o <<" ", "X">>),
     <<"\t">> \o IfLine(0)}

SeqsUpTo(S, n) == UNION {[1..k -> S] : k \in 0..n}

\* every document of up to MaxLines question and condition lines
NestInputs == {JoinLines(ls, LF) : ls \in SeqsUpTo(NestLines, MaxLines)}

\* every document of up to MaxLines headings, top-level questions and
\* conditions
TopicInputs == {JoinLines(ls, LF) : ls \in SeqsUpTo(TopicLines, MaxLines)}

\* every line of any kind after up to MaxContext lines, with line-feed
\* terminators, with CRLF terminators, and without the final newline
LexInputs ==
    LET docs == {c \o <<l>> : c \in SeqsUpTo(ContextLines, MaxContext),
                              l \in LexLines}
    IN  {JoinLines(ls, LF) : ls \in docs}
        \cup {JoinLines(ls, CRLF) : ls \in docs}
        \cup {Front(JoinLines(ls, LF)) : ls \in docs}
        \cup {<<>>}

\* documents of the repository's tests and README, with the texts shortened:
\* each line is given as <<kind, level>>
LineOf(kl) ==
    IF kl[1] = "h" THEN HeadingLine(kl[2])
    ELSE IF kl[1] = "q" THEN QLine(kl[2])
    ELSE IF kl[1] = "if" THEN IfLine(kl[2])
    ELSE <<>>

DocOf(kls) == JoinLines([k \in 1..Len(kls) |-> LineOf(kls[k])], LF)

DeepInputs ==
    {DocOf(<<<<"q", 0>>, <<"if", 1>>, <<"q", 2>>, <<"if", 3>>, <<"q", 4>>,
             <<"if", 1>>, <<"q", 2>>>>),
     DocOf(<<<<"q", 0>>, <<"if", 1>>, <<"q", 2>>, <<"q", 0>>, <<"if", 1>>,
             <<"q", 2>>>>),
     DocOf(<<<<"h", 1>>, <<"b", 0>>, <<"q", 0>>, <<"if", 1>>, <<"q", 2>>,
             <<"if", 3>>, <<"q", 4>>, <<"if", 3>>, <<"q", 4>>, <<"if", 1>>,
             <<"q", 2>>, <<"if", 1>>, <<"q", 2>>>>),
     DocOf(<<<<"q", 0>>, <<"if", 1>>, <<"q", 2>>, <<"if", 1>>, <<"q", 2>>,
             <<"h", 1>>, <<"q", 0>>, <<"h", 2>>, <<"q", 0>>, <<"if", 1>>,
             <<"q", 2>>, <<"h", 3>>, <<"q", 0>>, <<"h", 2>>, <<"q", 0>>,
             <<"h", 1>>, <<"q", 0>>>>),
     DocOf(<<<<"h", 2>>, <<"q", 0>>, <<"if", 1>>, <<"q", 2>>, <<"q", 2>>,
             <<"if", 3>>, <<"h", 1>>, <<"h", 3>>, <<"b", 0>>, <<"q", 0>>>>),
     DocOf(<<<<"q", 0>>, <<"if", 2>>, <<"q", 4>>, <<"if", 1>>, <<"q", 3>>,
             <<"q", 2>>>>),
     DocOf(<<<<"q", 0>>, <<"b", 0>>, <<"b", 0>>, <<"if", 1>>, <<"b", 0>>,
             <<"q", 2>>, <<"b", 0>>, <<"if", 1>>>>),
     DocOf(<<<<"h", 1>>, <<"h", 2>>, <<"q", 0>>, <<"if", 1>>, <<"q", 2>>,
             <<"if", 3>>, <<"q", 4>>, <<"q", 4>>, <<"if", 1>>>>),
     DocOf(<<<<"q", 0>>, <<"b", 0>>, <<"if", 1>>, <<"b", 0>>, <<"if", 2>>>>)}

\* texts and answers with the characters the Mermaid converter escapes
SpecialTexts ==
    {<<"\"", "X", "\"">>,
     <<"<", "X", ">">>,
     <<"[", "]">>,
     <<"&", "#", ";">>,
     <<"X", "|", "Z">>}

\* a question, a condition and a question below it, with special texts
EscapeInputs ==
    {JoinLines(<<ListItem(0, QMarker \o <<" ">> \o t),
                 ListItem(2, IFMarker \o <<" ">> \o a),
                 ListItem(4, QMarker \o <<" ">> \o u)>>, LF) :
        t \in SpecialTexts, a \in SpecialTexts, u \in {<<"X">>, <<"\"", "]">>}}

Inputs ==
    NestInputs \cup TopicInputs \cup LexInputs \cup DeepInputs \cup EscapeInputs

\* the arguments of the calls of parse that follow one another: documents
\* that parse returns, with root questions, nested questions and topics, and
\* documents that fail in a pre-check, in parseLines and in buildAST
CallInputs ==
    {DocOf(<<<<"q", 0>>, <<"if", 1>>, <<"q", 2>>, <<"q", 0>>>>),
     DocOf(<<<<"q", 0>>, <<"h", 1>>, <<"q", 0>>, <<"if", 1>>, <<"q", 2>>>>),
     DocOf(<<<<"q", 0>>>>),
     DocOf(<<<<"h", 1>>>>),
     DocOf(<<<<"q", 0>>, <<"q", 1>>>>),
     DocOf(<<<<"q", 0>>>>) \o <<"-", " ", "X", "\n">>,
     <<>>}

-----------------------------------------------------------------------------
(* The state machine of one call of parse *)

NoResult == [returned |-> FALSE, doc |-> [rootQuestions |-> <<>>, topics |-> <<>>]]

NoOutput == [returned |-> FALSE, text |-> <<>>, error |-> NoError]

Init ==
    /\ markdown \in Inputs
    /\ pc = "start"
    /\ lines = <<>>
    /\ i = 0
    /\ parsed = <<>>
    /\ heap = NewBuilder.heap
    /\ doc = NewBuilder.doc
    /\ topicStack = NewBuilder.topicStack
    /\ currentTopic = NewBuilder.currentTopic
    /\ nodeStack = NewBuilder.nodeStack
    /\ error = NoError
    /\ result = NoResult
    /\ mermaid = NoOutput
    /\ ink = NoOutput
    /\ earlier = <<>>

\* preCheck with the tab scan before the final-newline check
preCheckTabsFirst(md) ==
    LET ls == Split(ReplaceCRLF(md))
        tabbed == {k \in 1..Len(ls) : HasTab(ls[k])}
    IN  IF Len(md) = 0 THEN ParseError(MsgNoQNode, 0)
        ELSE IF tabbed # {} THEN ParseError(MsgTabs, Min(tabbed))
        ELSE IF ~EndsWithNewline(md) THEN ParseError(MsgNoNewline, 0)
        ELSE NoError

\* preCheck without the scan for tab characters
preCheckNoTabScan(md) ==
    IF Len(md) = 0 THEN ParseError(MsgNoQNode, 0)
    ELSE IF ~EndsWithNewline(md) THEN ParseError(MsgNoNewline, 0)
    ELSE NoError

\* The error of the pre-checks of parse, or NoError
preCheck(md) ==
    LET ls == Split(ReplaceCRLF(md))
        tabbed == {k \in 1..Len(ls) : HasTab(ls[k])}
    IN  IF Len(md) = 0 THEN ParseError(MsgNoQNode, 0)
        ELSE IF ~EndsWithNewline(md) THEN ParseError(MsgNoNewline, 0)
        ELSE IF tabbed # {} THEN ParseError(MsgTabs, Min(tabbed))
        ELSE NoError

-----------------------------------------------------------------------------
(* parse as a function of its argument: the loops of parseLines and         *)
(* buildAST run to their end or to the first throw.  The value is           *)
(* [error, returned, doc, heap]; a parse that throws returns no document.   *)

RECURSIVE parseLinesFrom(_, _, _)

\* parseLines from index idx on, acc being the records pushed so far
parseLinesFrom(ls, idx, acc) ==
    IF idx >= Len(ls) THEN [error |-> NoError, parsed |-> acc]
    ELSE LET r == parseLinesBody(ls, idx)
         IN  IF r.error # NoError
             THEN [error |-> r.error, parsed |-> acc]
             ELSE parseLinesFrom(ls, idx + 1, acc \o r.push)

RECURSIVE buildASTFrom(_, _, _)

\* buildAST from the record at 0-based position k on
buildASTFrom(b, parsedLines, k) ==
    IF k >= Len(parsedLines) \/ b.error # NoError THEN b
    ELSE buildASTFrom(buildASTBody(b, parsedLines[k + 1]), parsedLines, k + 1)

Threw(e) ==
    [error |-> e, returned |-> FALSE,
     doc |-> [rootQuestions |-> <<>>, topics |-> <<>>], heap |-> <<>>]

parseOf(md) ==
    IF preCheck(md) # NoError THEN Threw(preCheck(md))
    ELSE LET pl == parseLinesFrom(Split(ReplaceCRLF(md)), 0, <<>>)
         IN  IF pl.error # NoError THEN Threw(pl.error)
             ELSE LET b == buildASTFrom(NewBuilder, pl.parsed, 0)
                  IN  IF b.error # NoError THEN Threw(b.error)
                      ELSE IF NoQNode(b.heap, b.doc)
                      THEN Threw(ParseError(MsgNoQNode, 0))
                      ELSE [error |-> NoError, returned |-> TRUE, doc |-> b.doc,
                            heap |-> assignQuestionIds(b.heap, b.doc)]

-----------------------------------------------------------------------------
(* The steps of one call of parse *)

\* parse up to the call of parseLines
ParseStart ==
    /\ pc = "start"
    /\ LET e == preCheck(markdown)
       IN  /\ error' = e
           /\ IF e # NoError
              THEN pc' = "error" /\ lines' = lines
              ELSE pc' = "parseLines" /\ lines' = Split(ReplaceCRLF(markdown))
    /\ UNCHANGED <<markdown, i, parsed, heap, doc, topicStack, currentTopic,
                   nodeStack, result, mermaid, ink, earlier>>

\* ParseLinesStep that goes on after an invalid line and throws the error of
\* the last invalid line at the end
ParseLinesStepLastError ==
    /\ pc = "parseLines"
    /\ LET r == parseLinesBody(lines, i)
           e == IF r.error # NoError THEN r.error ELSE error
       IN  /\ error' = e
           /\ parsed' = parsed \o r.push
           /\ IF i + 1 < Len(lines)
              THEN pc' = "parseLines" /\ i' = i + 1
              ELSE IF e # NoError
                   THEN pc' = "error" /\ i' = i
                   ELSE pc' = "buildAST" /\ i' = 0
    /\ UNCHANGED <<markdown, lines, heap, doc, topicStack, currentTopic,
                   nodeStack, result, mermaid, ink, earlier>>

\* One iteration of the loop of parseLines; after the last one buildAST starts
ParseLinesStep ==
    /\ pc = "parseLines"
    /\ LET r == parseLinesBody(lines, i)
       IN  IF r.error # NoError
           THEN /\ pc' = "error"
                /\ error' = r.error
                /\ UNCHANGED <<i, parsed>>
           ELSE /\ parsed' = parsed \o r.push
                /\ error' = error
                /\ IF i + 1 < Len(lines)
                   THEN pc' = "parseLines" /\ i' = i + 1
                   ELSE pc' = "buildAST" /\ i' = 0
    /\ UNCHANGED <<markdown, lines, heap, doc, topicStack, currentTopic,
                   nodeStack, result, mermaid, ink, earlier>>

Builder ==
    [doc |-> doc, heap |-> heap, topicStack |-> topicStack,
     currentTopic |-> currentTopic, nodeStack |-> nodeStack, error |-> error]

\* BuildASTStep in which a blank line does not move the loop on
BuildASTStepBlankStalls ==
    /\ pc = "buildAST"
    /\ IF i < Len(parsed)
       THEN LET b == buildASTBody(Builder, parsed[i + 1])
            IN  /\ doc' = b.doc
                /\ heap' = b.heap
                /\ topicStack' = b.topicStack
                /\ currentTopic' = b.currentTopic
                /\ nodeStack' = b.nodeStack
                /\ error' = b.error
                /\ IF b.error # NoError
                   THEN pc' = "error" /\ i' = i
                   ELSE IF parsed[i + 1].type = "blank"
                   THEN pc' = "buildAST" /\ i' = i
                   ELSE /\ i' = i + 1
                        /\ pc' = IF i + 1 < Len(parsed) THEN "buildAST" ELSE "validate"
       ELSE /\ pc' = "validate"
            /\ UNCHANGED <<i, doc, heap, topicStack, currentTopic, nodeStack, error>>
    /\ UNCHANGED <<markdown, lines, parsed, result, mermaid, ink, earlier>>

\* One iteration of the loop of buildAST; after the last one buildAST returns
BuildASTStep ==
    /\ pc = "buildAST"
    /\ IF i < Len(parsed)
       THEN LET b == buildASTBody(Builder, parsed[i + 1])
            IN  /\ doc' = b.doc
                /\ heap' = b.heap
                /\ topicStack' = b.topicStack
                /\ currentTopic' = b.currentTopic
                /\ nodeStack' = b.nodeStack
                /\ error' = b.error
                /\ IF b.error # NoError
                   THEN pc' = "error" /\ i' = i
                   ELSE /\ i' = i + 1
                        /\ pc' = IF i + 1 < Len(parsed) THEN "buildAST" ELSE "validate"
       ELSE /\ pc' = "validate"
            /\ UNCHANGED <<i, doc, heap, topicStack, currentTopic, nodeStack, error>>
    /\ UNCHANGED <<markdown, lines, parsed, result, mermaid, ink, earlier>>

\* parse: the document must have at least one Q-node
Validate ==
    /\ pc = "validate"
    /\ IF NoQNode(heap, doc)
       THEN pc' = "error" /\ error' = ParseError(MsgNoQNode, 0)
       ELSE pc' = "assign" /\ error' = error
    /\ UNCHANGED <<markdown, lines, i, parsed, heap, doc, topicStack,
                   currentTopic, nodeStack, result, mermaid, ink, earlier>>

\* parse: assignQuestionIds(doc); return doc
AssignAndReturn ==
    /\ pc = "assign"
    /\ heap' = assignQuestionIds(heap, doc)
    /\ result' = [returned |-> TRUE, doc |-> doc]
    /\ pc' = "done"
    /\ UNCHANGED <<markdown, lines, i, parsed, doc, topicStack, currentTopic,
                   nodeStack, error, mermaid, ink, earlier>>

\* Converted that catches the error of parse and returns the empty text
ConvertedEmptyOnError(text) ==
    IF pc = "error"
    THEN [returned |-> TRUE, text |-> <<>>, error |-> NoError]
    ELSE [returned |-> TRUE, text |-> text, error |-> NoError]

\* what a converter gives after const doc = parse(markdown): the error of
\* parse goes through it, otherwise it returns the text generated from doc
Converted(text) ==
    IF pc = "error"
    THEN [returned |-> FALSE, text |-> <<>>, error |-> error]
    ELSE [returned |-> TRUE, text |-> text, error |-> NoError]

\* toMermaid: const doc = parse(markdown); return generateMermaid(doc)
ToMermaid ==
    /\ pc \in {"done", "error"}
    /\ mermaid = NoOutput
    /\ mermaid' = Converted(generateMermaid(heap, result.doc))
    /\ UNCHANGED <<markdown, pc, lines, i, parsed, heap, doc, topicStack,
                   currentTopic, nodeStack, error, result, ink, earlier>>

\* toInk: const doc = parse(markdown); return generateInk(doc)
ToInk ==
    /\ pc \in {"done", "error"}
    /\ ink = NoOutput
    /\ ink' = Converted(generateInk(heap, result.doc))
    /\ UNCHANGED <<markdown, pc, lines, i, parsed, heap, doc, topicStack,
                   currentTopic, nodeStack, error, result, mermaid, earlier>>

Next ==
    \/ ParseStart
    \/ ParseLinesStep
    \/ BuildASTStep
    \/ Validate
    \/ AssignAndReturn
    \/ ToMermaid
    \/ ToInk

Spec == Init /\ [][Next]_vars

\* how the call of parse ended: the value returned or the error thrown
CallOutcome ==
    IF pc = "done"
    THEN [error |-> NoError, returned |-> TRUE, doc |-> result.doc, heap |-> heap]
    ELSE Threw(error)

\* the caller calls parse again, with any argument: every local variable of
\* parse, parseLines, buildAST and assignQuestionIds is created anew
ParseAgain ==
    /\ pc \in {"done", "error"}
    /\ Len(earlier) + 1 < MaxCalls
    /\ earlier' = Append(earlier, [markdown |-> markdown, outcome |-> CallOutcome])
    /\ markdown' \in CallInputs
    /\ pc' = "start"
    /\ lines' = <<>>
    /\ i' = 0
    /\ parsed' = <<>>
    /\ heap' = NewBuilder.heap
    /\ doc' = NewBuilder.doc
    /\ topicStack' = NewBuilder.topicStack
    /\ currentTopic' = NewBuilder.currentTopic
    /\ nodeStack' = NewBuilder.nodeStack
    /\ error' = NoError
    /\ result' = NoResult
    /\ UNCHANGED <<mermaid, ink>>

InitCalls ==
    /\ markdown \in CallInputs
    /\ pc = "start"
    /\ lines = <<>>
    /\ i = 0
    /\ parsed = <<>>
    /\ heap = NewBuilder.heap
    /\ doc = NewBuilder.doc
    /\ topicStack = NewBuilder.topicStack
    /\ currentTopic = NewBuilder.currentTopic
    /\ nodeStack = NewBuilder.nodeStack
    /\ error = NoError
    /\ result = NoResult
    /\ mermaid = NoOutput
    /\ ink = NoOutput
    /\ earlier = <<>>

NextCalls ==
    \/ ParseStart
    \/ ParseLinesStep
    \/ BuildASTStep
    \/ Validate
    \/ AssignAndReturn
    \/ ParseAgain

\* calls of parse one after the other
SpecCalls == InitCalls /\ [][NextCalls]_vars

\* the arguments of the calls of parse that are followed to their end: the
\* documents of CallInputs, documents in which both pop loops of buildAST
\* remove elements, and documents that fail at each throw of buildAST
RunInputs ==
    CallInputs
    \cup {DocOf(<<<<"h", 1>>, <<"b", 0>>, <<"q", 0>>, <<"if", 1>>, <<"q", 2>>,
                  <<"q", 2>>, <<"h", 1>>, <<"q", 0>>>>),
          DocOf(<<<<"q", 0>>, <<"if", 1>>, <<"q", 2>>, <<"if", 1>>, <<"q", 2>>>>),
          DocOf(<<<<"h", 1>>, <<"h", 2>>, <<"q", 0>>, <<"h", 1>>, <<"q", 0>>>>),
          DocOf(<<<<"q", 0>>, <<"if", 1>>, <<"if", 2>>>>),
          DocOf(<<<<"q", 0>>, <<"if", 2>>>>),
          DocOf(<<<<"if", 0>>>>),
          DocOf(<<<<"q", 0>>, <<"b", 0>>, <<"if", 1>>>>),
          <<"\t", "\n">>,
          <<"#", " ", "T">>}

InitRuns ==
    /\ markdown \in RunInputs
    /\ pc = "start"
    /\ lines = <<>>
    /\ i = 0
    /\ parsed = <<>>
    /\ heap = NewBuilder.heap
    /\ doc = NewBuilder.doc
    /\ topicStack = NewBuilder.topicStack
    /\ currentTopic = NewBuilder.currentTopic
    /\ nodeStack = NewBuilder.nodeStack
    /\ error = NoError
    /\ result = NoResult
    /\ mermaid = NoOutput
    /\ ink = NoOutput
    /\ earlier = <<>>

\* parse is one synchronous call: nothing suspends it between two of its
\* steps, so a step of parse that can be taken is taken
SpecParseRuns ==
    /\ InitRuns
    /\ [][Next]_vars
    /\ WF_vars(ParseStart \/ ParseLinesStep \/ BuildASTStep \/ Validate
               \/ AssignAndReturn)

-----------------------------------------------------------------------------
(* Vocabulary of the properties *)

Range(s) == {s[k] : k \in 1..Len(s)}

Returned == pc = "done"

Failed == pc = "error"

\* the error is the ParseError with this message text and line number
FailsWith(message, lineNumber) == Failed /\ error = ParseError(message, lineNumber)

\* the Q-nodes that are children of the IF-nodes of the Q-node q
ChildQuestions(h, q) ==
    UNION {Range(h[f].children) : f \in Range(h[q].children)}

\* q and all Q-nodes below it
RECURSIVE QuestionsUnder(_, _)
QuestionsUnder(h, q) ==
    {q} \cup UNION {QuestionsUnder(h, c) : c \in ChildQuestions(h, q)}

\* the Q-nodes at and below the Q-nodes of a list
QuestionsOf(h, qs) == UNION {QuestionsUnder(h, q) : q \in Range(qs)}

\* the Q-nodes below the IF-node f
QuestionsOfIf(h, f) == QuestionsOf(h, h[f].children)

\* all Q-nodes of a topic and its sub-topics
RECURSIVE QuestionsOfTopic(_, _)
QuestionsOfTopic(h, t) ==
    QuestionsOf(h, h[t].questions)
    \cup UNION {QuestionsOfTopic(h, c) : c \in Range(h[t].children)}

QuestionsOfTopics(h, ts) == UNION {QuestionsOfTopic(h, t) : t \in Range(ts)}

\* a topic and all its sub-topics
RECURSIVE TopicsUnder(_, _)
TopicsUnder(h, t) ==
    {t} \cup UNION {TopicsUnder(h, c) : c \in Range(h[t].children)}

DocTopics == UNION {TopicsUnder(heap, t) : t \in Range(doc.topics)}

DocQuestions ==
    QuestionsOf(heap, doc.rootQuestions) \cup QuestionsOfTopics(heap, doc.topics)

DocIfs == UNION {Range(heap[q].children) : q \in DocQuestions}

\* the identifier with number n
QId(n) == <<"Q">> \o Digits(n)

\* the number in the identifier of the Q-node q, 0 if it has none
IdNumber(q) ==
    IF \E n \in 1..Len(heap) : heap[q].id = QId(n)
    THEN CHOOSE n \in 1..Len(heap) : heap[q].id = QId(n)
    ELSE 0

\* every Q-node of A is numbered before every Q-node of B
NumberedBefore(A, B) == \A a \in A, b \in B : IdNumber(a) < IdNumber(b)

\* in a list, everything that belongs to an element is numbered before
\* everything that belongs to a later element; Of(x) is what belongs to x
InListOrder(list, Of(_)) ==
    \A j, k \in 1..Len(list) : j < k => NumberedBefore(Of(list[j]), Of(list[k]))

-----------------------------------------------------------------------------
(* C1: in a returned document the ids of the Q-nodes are exactly Q1..Qn, n  *)
(* the number of Q-nodes, and they follow the pre-order depth-first order:  *)
(* root questions before the topics, a question before its descendants, a  *)
(* left sibling's whole subtree before its right sibling, a topic's own     *)
(* questions before the questions of its child topics.                      *)

IdsAreQ1ToQn ==
    {heap[q].id : q \in DocQuestions} = {QId(n) : n \in 1..Cardinality(DocQuestions)}

IdsInPreOrder ==
    LET QU(q) == QuestionsUnder(heap, q)
        QI(f) == QuestionsOfIf(heap, f)
        QT(t) == QuestionsOfTopic(heap, t)
    IN  /\ NumberedBefore(QuestionsOf(heap, doc.rootQuestions),
                          QuestionsOfTopics(heap, doc.topics))
        /\ InListOrder(doc.rootQuestions, QU)
        /\ InListOrder(doc.topics, QT)
        /\ \A q \in DocQuestions :
              /\ NumberedBefore({q}, QU(q) \ {q})
              /\ InListOrder(heap[q].children, QI)
        /\ \A f \in DocIfs : InListOrder(heap[f].children, QU)
        /\ \A t \in DocTopics :
              /\ InListOrder(heap[t].questions, QU)
              /\ InListOrder(heap[t].children, QT)
              /\ NumberedBefore(QuestionsOf(heap, heap[t].questions),
                                QuestionsOfTopics(heap, heap[t].children))

C1_IdsSequentialPreOrder == Returned => IdsAreQ1ToQn /\ IdsInPreOrder

\* a returned document with root questions, a question with two branches
\* that each lead to a question, and a topic with own questions and a child
\* topic that has questions
C1_Witness ==
    /\ Returned
    /\ doc.rootQuestions # <<>>
    /\ \E q \in DocQuestions :
          /\ Len(heap[q].children) >= 2
          /\ \A f \in Range(heap[q].children) : heap[f].children # <<>>
    /\ \E t \in DocTopics :
          /\ heap[t].questions # <<>>
          /\ QuestionsOfTopics(heap, heap[t].children) # {}

-----------------------------------------------------------------------------
(* C2: in a returned document node kinds alternate: the children of a       *)
(* Q-node are IF-nodes, the children of an IF-node are Q-nodes, the root    *)
(* questions and the questions of a topic are Q-nodes, and every IF-node is *)
(* a child of a Q-node, never an entry of the document or of a topic.       *)

Nodes == 1..Len(heap)

AllOfType(refs, type) == \A a \in Range(refs) : heap[a].type = type

C2_KindsAlternate ==
    Returned =>
      /\ AllOfType(doc.rootQuestions, "question")
      /\ AllOfType(doc.topics, "topic")
      /\ \A a \in Nodes :
            /\ heap[a].type = "question" => AllOfType(heap[a].children, "if")
            /\ heap[a].type = "topic" =>
                  /\ AllOfType(heap[a].questions, "question")
                  /\ AllOfType(heap[a].children, "topic")
            /\ heap[a].type = "if" =>
                  /\ AllOfType(heap[a].children, "question")
                  /\ \E q \in Nodes :
                        heap[q].type = "question" /\ a \in Range(heap[q].children)

\* a returned document with a topic question and a root question that each
\* have a branch leading to a further question
C2_Witness ==
    /\ Returned
    /\ \E t \in DocTopics, q \in DocQuestions :
          /\ q \in Range(heap[t].questions)
          /\ ChildQuestions(heap, q) # {}
    /\ \E q \in Range(doc.rootQuestions) : ChildQuestions(heap, q) # {}

-----------------------------------------------------------------------------
(* C3: when buildAST reaches a question line at indent N > 0 and the        *)
(* innermost open node that is left after discarding the open nodes of      *)
(* indent >= N is a Q-node, parse fails with "Q-node cannot be direct child *)
(* of another Q-node" at that line; a condition line at indent N > 0 whose  *)
(* innermost remaining open node is an IF-node fails with "IF-node cannot   *)
(* be direct child of another IF-node" at that line.                        *)

\* buildAST is about to process a line
Building == pc = "buildAST" /\ i < Len(parsed)

\* the line buildAST is about to process
CurrentLine == parsed[i + 1]

\* the open nodes that are left after discarding those of indent >= N
OpenBelow(N) ==
    LET Lower(e) == e.indentLevel < N
    IN  SelectSeq(nodeStack, Lower)

\* the type of the innermost open node below indent N, "none" without one
InnermostBelow(N) ==
    IF OpenBelow(N) = <<>> THEN "none" ELSE heap[Last(OpenBelow(N)).node].type

C3_Step ==
    Building =>
      /\ ( /\ CurrentLine.type = "question"
           /\ CurrentLine.level > 0
           /\ InnermostBelow(CurrentLine.level) = "question" )
         => ( pc' = "error"
              /\ error' = ParseError(MsgQUnderQ, CurrentLine.lineNumber) )
      /\ ( /\ CurrentLine.type = "if"
           /\ CurrentLine.level > 0
           /\ InnermostBelow(CurrentLine.level) = "if" )
         => ( pc' = "error"
              /\ error' = ParseError(MsgIfUnderIf, CurrentLine.lineNumber) )

C3_SameKindParentRejected == [][C3_Step]_vars

\* a question line was rejected as the child of a Q-node after deeper open
\* nodes had been discarded
C3_Witness ==
    /\ Failed
    /\ i < Len(parsed)
    /\ error = ParseError(MsgQUnderQ, CurrentLine.lineNumber)
    /\ CurrentLine.type = "question"
    /\ CurrentLine.lineNumber >= 4
    /\ \E k \in 1..i : parsed[k].type = "if" /\ parsed[k].level >= CurrentLine.level

-----------------------------------------------------------------------------
(* C4: when buildAST reaches a condition line at indent level 0, parse      *)
(* fails with "**IF:** node cannot appear at indent level 0" and the        *)
(* 1-indexed number of that line, whatever the topic stack and the node     *)
(* stack hold.                                                              *)

\* line n of the input is an unindented list item with the exact IF marker
IsTopLevelIfLine(n) ==
    /\ n \in 1..Len(lines)
    /\ ListMatch(lines[n]) # <<>>
    /\ ListMatch(lines[n])[1] = <<>>
    /\ IfMatch(ListMatch(lines[n])[2]) # <<>>

C4_Step ==
    (Building /\ CurrentLine.type = "if" /\ CurrentLine.level = 0)
    => /\ pc' = "error"
       /\ error' = ParseError(MsgIfTopLevel, CurrentLine.lineNumber)
       /\ IsTopLevelIfLine(error'.lineNumber)

C4_IfAtTopLevelRejected == [][C4_Step]_vars

\* a condition line at indent 0 was rejected while a topic and a top-level
\* question were open
C4_Witness ==
    /\ FailsWith(MsgIfTopLevel, error.lineNumber)
    /\ IsTopLevelIfLine(error.lineNumber)
    /\ topicStack # <<>>
    /\ nodeStack # <<>>

-----------------------------------------------------------------------------
(* C5: in a returned document every child node's indent level is its        *)
(* parent's indent level plus one, so an input in which a nested node skips *)
(* an indent level, or in which the children of one parent have different   *)
(* indent levels, is not accepted.                                          *)

\* the indent level of the source line of the node at address a
IndentOf(a) ==
    (CHOOSE pl \in Range(parsed) : pl.lineNumber = heap[a].lineNumber).level

C5_ChildIndentIsParentPlusOne ==
    Returned =>
      \A a \in Nodes :
         heap[a].type \in {"question", "if"} =>
            \A c \in Range(heap[a].children) : IndentOf(c) = IndentOf(a) + 1

-----------------------------------------------------------------------------
(* C6: the empty input fails with "Document must contain at least one       *)
(* Q-node" at line 0; every non-empty input whose last character is not a   *)
(* newline fails with "Document must end with newline character" at line 0, *)
(* whatever else the input contains.                                        *)

Started == pc # "start"

C6_PreCheckOrder ==
    Started =>
      /\ markdown = <<>> => FailsWith(MsgNoQNode, 0)
      /\ (markdown # <<>> /\ Last(markdown) # "\n") => FailsWith(MsgNoNewline, 0)

\* an input without the final newline that holds a tab, an IF line at
\* indent 0 and a list item without marker was rejected for the newline
C6_Witness ==
    /\ FailsWith(MsgNoNewline, 0)
    /\ "\t" \in Range(markdown)
    /\ StartsWith(markdown, <<"\t">> \o IfLine(0) \o LF \o <<"-", " ", "X">>)

-----------------------------------------------------------------------------
(* C7: for an input that passes the pre-checks and has no tab: if some line *)
(* is lexically invalid, parse fails with the classification error of the   *)
(* lowest-numbered such line, even when a lower-numbered line violates a    *)
(* structural rule; a structural error is reported only when every line     *)
(* classifies, and it is the error of the first line buildAST rejects, all  *)
(* lines before it having been built; a failing parse returns no document.  *)

Finished == Returned \/ Failed

PassesPreChecks ==
    markdown # <<>> /\ Last(markdown) = "\n" /\ "\t" \notin Range(markdown)

\* the classification error of line k of the input, NoError if it has none
LexError(k) == parseLinesBody(lines, k - 1).error

InvalidLines == {k \in 1..Len(lines) : LexError(k) # NoError}

StructuralMessages ==
    {MsgOrphanQ, MsgQUnderQ, MsgIfTopLevel, MsgOrphanIf, MsgIfUnderIf}

StructuralFailure ==
    Failed /\ \E m \in StructuralMessages : error = ParseError(m, error.lineNumber)

\* the nodes that are part of the document
AttachedNodes == DocTopics \cup DocQuestions \cup DocIfs

C7_FirstFailureInStageOrder ==
    /\ Failed => ~result.returned
    /\ (Finished /\ PassesPreChecks) =>
         /\ InvalidLines # {} => (Failed /\ error = LexError(Min(InvalidLines)))
         /\ StructuralFailure =>
              /\ InvalidLines = {}
              /\ i < Len(parsed)
              /\ error.lineNumber = CurrentLine.lineNumber
              /\ {heap[a].lineNumber : a \in AttachedNodes}
                   = {pl.lineNumber : pl \in {x \in Range(parsed) :
                         x.type # "blank" /\ x.lineNumber < error.lineNumber}}

\* the lexical error of line 2 was reported although line 1, an IF line at
\* indent 0, violates a structural rule
C7_Witness ==
    /\ Failed
    /\ PassesPreChecks
    /\ lines[1] = IfLine(0)
    /\ error.lineNumber = 2
    /\ error = LexError(2)
    /\ ~result.returned

-----------------------------------------------------------------------------
(* C8: once the lines are classified and built, parse fails with "Document  *)
(* must contain at least one Q-node" at line 0 exactly if the input has no  *)
(* question line; otherwise it goes on to return the document, also when    *)
(* some topic owns no question.                                             *)

HasQuestionLine == \E pl \in Range(parsed) : pl.type = "question"

C8_Step ==
    pc = "validate" =>
      /\ ~HasQuestionLine <=> (pc' = "error" /\ error' = ParseError(MsgNoQNode, 0))
      /\ HasQuestionLine <=> pc' = "assign"

C8_NoQNodeIffNoQuestionLine == [][C8_Step]_vars

\* a returned document in which one topic has no question at all and
\* another has questions only in a sub-topic
C8_Witness ==
    /\ Returned
    /\ \E t \in DocTopics : QuestionsOfTopic(heap, t) = {}
    /\ \E t \in DocTopics :
          heap[t].questions = <<>> /\ QuestionsOfTopic(heap, t) # {}

-----------------------------------------------------------------------------
(* C9, as stated: whenever parse finishes, every line it has split the      *)
(* input into that has an odd number M of leading spaces has made it fail   *)
(* with "Indent must be multiple of 2 spaces (got M spaces)" at that line's *)
(* number.                                                                  *)

LeadingSpaces(line) == CountLeading(line, " ")

C9_AnyOddLeadingSpacesRejected ==
    Finished =>
      \A k \in 1..Len(lines) :
        LeadingSpaces(lines[k]) % 2 = 1 =>
          FailsWith(MsgIndent(LeadingSpaces(lines[k])), k)

(* C9, amended: for an input that passes the pre-checks and has no tab, a   *)
(* line of the list-item form (spaces, "- ", content) with an odd number M  *)
(* of leading spaces, all lines before it classifying without error, makes  *)
(* parse fail with "Indent must be multiple of 2 spaces (got M spaces)" at  *)
(* that line's number.                                                      *)

IsListItemLine(line) ==
    LET M == LeadingSpaces(line)
    IN  /\ Len(line) >= M + 2
        /\ SubSeq(line, M + 1, M + 2) = <<"-", " ">>
        /\ \A k \in (M + 3)..Len(line) : line[k] \notin {"\n", "\r"}

C9_OddIndentListItemRejected ==
    (Finished /\ PassesPreChecks) =>
      \A k \in 1..Len(lines) :
        ( /\ IsListItemLine(lines[k])
          /\ LeadingSpaces(lines[k]) % 2 = 1
          /\ \A j \in 1..(k - 1) : LexError(j) = NoError )
        => FailsWith(MsgIndent(LeadingSpaces(lines[k])), k)

\* a list item with three leading spaces and a valid marker on line 2, after
\* a valid line, was rejected for its indent
C9_Witness ==
    /\ PassesPreChecks
    /\ Len(lines) >= 2
    /\ IsListItemLine(lines[2])
    /\ LeadingSpaces(lines[2]) = 3
    /\ LexError(1) = NoError
    /\ FailsWith(MsgIndent(3), 2)

-----------------------------------------------------------------------------
(* C10: when parseLines classifies a list-item line with an even indent,    *)
(* the marker at the start of its content decides in this priority: exact   *)
(* "**Q:**" makes it a question line (a question record at level indent/2,  *)
(* or the marker's own text error); else exact "**IF:**" makes it a         *)
(* condition line likewise; else a case variant of either marker fails with *)
(* the case-sensitivity error; else "**<word>:**" with any other word fails *)
(* with the unknown-marker error quoting the word; else the line fails with *)
(* the missing-marker error.                                                *)

CaseVariants ==
    {<<"*", "*", "q", ":", "*", "*">>,
     <<"*", "*", "i", "f", ":", "*", "*">>,
     <<"*", "*", "I", "f", ":", "*", "*">>,
     <<"*", "*", "i", "F", ":", "*", "*">>}

\* the words w for which content starts with **w:**
MarkerWords(content) ==
    {SubSeq(content, 3, k) : k \in {n \in 3..(Len(content) - 3) :
        /\ SubSeq(content, 1, 2) = <<"*", "*">>
        /\ "*" \notin Range(SubSeq(content, 3, n))
        /\ SubSeq(content, n + 1, n + 3) = <<":", "*", "*">>}}

\* the line was classified as a line of the given type, or rejected for the
\* text after its marker
ClassifiedAs(type, emptyMsg, level, n) ==
    \/ /\ pc' # "error"
       /\ Len(parsed') = Len(parsed) + 1
       /\ Last(parsed').type = type
       /\ Last(parsed').level = level
       /\ Last(parsed').lineNumber = n
    \/ /\ pc' = "error"
       /\ error' \in {ParseError(emptyMsg, n), ParseError(MsgUnbalanced, n)}

RejectedWith(message, n) == pc' = "error" /\ error' = ParseError(message, n)

C10_Step ==
    LET line == lines[i + 1]
        M == LeadingSpaces(line)
        content == Drop(line, M + 2)
        n == i + 1
    IN  (pc = "parseLines" /\ IsListItemLine(line) /\ M % 2 = 0) =>
          IF StartsWith(content, QMarker)
          THEN ClassifiedAs("question", MsgEmptyQ, M \div 2, n)
          ELSE IF StartsWith(content, IFMarker)
          THEN ClassifiedAs("if", MsgEmptyIF, M \div 2, n)
          ELSE IF \E v \in CaseVariants : StartsWith(content, v)
          THEN RejectedWith(MsgCase, n)
          ELSE IF MarkerWords(content) # {}
          THEN \E w \in MarkerWords(content) : RejectedWith(MsgUnknown(w), n)
          ELSE RejectedWith(MsgMissingMarker, n)

-----------------------------------------------------------------------------
(* C11: when parseLines classifies a list item (its indent accepted) whose  *)
(* content starts with the exact marker "**Q:**" or "**IF:**", whatever the *)
(* number of spaces after the marker: if the remainder after the marker is  *)
(* empty once its surrounding spaces are removed, the line fails with that  *)
(* marker's "requires non-empty text" error; else if it contains "**", the  *)
(* line fails with "Unbalanced bold markers in text"; else the line is      *)
(* recorded with the remainder, surrounding spaces removed, as its text.    *)

\* s without its leading and trailing spaces
StripSpaces(s) ==
    LET solid == {k \in 1..Len(s) : s[k] # " "}
    IN  IF solid = {} THEN <<>>
        ELSE [k \in 1..(Max(solid) - Min(solid) + 1) |-> s[Min(solid) + k - 1]]

HasDoubleAsterisk(s) == \E k \in 1..(Len(s) - 1) : s[k] = "*" /\ s[k + 1] = "*"

MarkerOutcome(marker, type, emptyMsg, content, M, n) ==
    LET text == StripSpaces(Drop(content, Len(marker)))
    IN  IF text = <<>>
        THEN RejectedWith(emptyMsg, n)
        ELSE IF HasDoubleAsterisk(text)
        THEN RejectedWith(MsgUnbalanced, n)
        ELSE /\ pc' # "error"
             /\ parsed' = Append(parsed, [lineNumber |-> n, type |-> type,
                                          level |-> M \div 2, text |-> text,
                                          spaces |-> M])

C11_Step ==
    LET line == lines[i + 1]
        M == LeadingSpaces(line)
        content == Drop(line, M + 2)
        n == i + 1
    IN  (pc = "parseLines" /\ IsListItemLine(line) /\ M % 2 = 0) =>
          /\ StartsWith(content, QMarker) =>
               MarkerOutcome(QMarker, "question", MsgEmptyQ, content, M, n)
          /\ StartsWith(content, IFMarker) =>
               MarkerOutcome(IFMarker, "if", MsgEmptyIF, content, M, n)

C11_MarkerText == [][C11_Step]_vars

\* the text X was taken from a question line with two spaces after the
\* marker and one after the text
C11_Witness ==
    \E k \in 1..Len(parsed) :
       /\ parsed[k].type = "question"
       /\ lines[parsed[k].lineNumber]
            = <<"-", " ">> \o QMarker \o <<" ", " ", "X", " ">>
       /\ parsed[k].text = <<"X">>

-----------------------------------------------------------------------------
(* C12: in every document parse returns, the text of every question and the *)
(* answer of every condition is non-empty, neither starts nor ends with a   *)
(* space, and contains neither a tab nor the sequence "**".                 *)

CleanText(s) ==
    /\ s # <<>>
    /\ s[1] # " "
    /\ s[Len(s)] # " "
    /\ \A k \in 1..Len(s) : s[k] # "\t"
    /\ \A k \in 1..(Len(s) - 1) : ~(s[k] = "*" /\ s[k + 1] = "*")

C12_NodeTextsClean ==
    Returned =>
      /\ \A q \in DocQuestions : CleanText(heap[q].text)
      /\ \A a \in DocIfs : CleanText(heap[a].answer)

\* a returned document whose question text, taken from a line with spaces
\* around it, holds a single asterisk, the nearest thing to a bold marker
C12_Witness ==
    /\ Returned
    /\ \E q \in DocQuestions :
          /\ heap[q].text = <<"X", "*", "Z">>
          /\ lines[heap[q].lineNumber] # <<"-", " ">> \o QMarker \o heap[q].text

-----------------------------------------------------------------------------
(* C13: on a heading line of level L buildAST drops from the topic stack    *)
(* the topics at its top that have level >= L, attaches the new topic to    *)
(* the document's top-level topics if the stack is then empty and otherwise *)
(* as the last child of the new stack top, and pushes it; and in every      *)
(* returned document every topic below a topic, at any depth, has a level   *)
(* strictly greater than that topic's.                                      *)

\* the topic stack without the topics at its top that have level >= L
TopicsKept(L) ==
    LET lower == {k \in 1..Len(topicStack) : heap[topicStack[k]].level < L}
    IN  IF lower = {} THEN <<>> ELSE SubSeq(topicStack, 1, Max(lower))

DescendantsDeeper ==
    \A t \in DocTopics : \A d \in TopicsUnder(heap, t) \ {t} :
       heap[d].level > heap[t].level

C13_Step ==
    /\ (Building /\ CurrentLine.type = "heading") =>
         LET L == CurrentLine.level
             kept == TopicsKept(L)
             t == Len(heap) + 1
         IN  /\ Len(heap') = t
             /\ heap'[t].type = "topic"
             /\ heap'[t].level = L
             /\ heap'[t].title = CurrentLine.text
             /\ topicStack' = Append(kept, t)
             /\ IF kept = <<>>
                THEN /\ doc'.topics = Append(doc.topics, t)
                     /\ \A a \in 1..Len(heap) : heap'[a] = heap[a]
                ELSE /\ doc'.topics = doc.topics
                     /\ heap'[Last(kept)].children
                          = Append(heap[Last(kept)].children, t)
                     /\ \A a \in (1..Len(heap)) \ {Last(kept)} : heap'[a] = heap[a]
    /\ Returned' => DescendantsDeeper'

-----------------------------------------------------------------------------
(* C14: buildAST attaches a question line at indent level 0 to the direct   *)
(* questions of the topic made from the nearest preceding heading line, and *)
(* to the document's root questions if no heading precedes it; once a       *)
(* heading has been processed the root questions never change; and every    *)
(* root question has a smaller line number than every topic.                *)

\* the positions in parsed of the heading lines buildAST has processed
HeadingsDone == {k \in 1..i : parsed[k].type = "heading"}

\* the topic made from the heading line at position k of parsed
TopicOfLine(k) ==
    CHOOSE a \in 1..Len(heap) :
       heap[a].type = "topic" /\ heap[a].lineNumber = parsed[k].lineNumber

RootQuestionsBeforeTopics ==
    \A q \in Range(doc.rootQuestions) :
       \A a \in 1..Len(heap) :
          heap[a].type = "topic" => heap[q].lineNumber < heap[a].lineNumber

C14_Step ==
    /\ (Building /\ CurrentLine.type = "question" /\ CurrentLine.level = 0) =>
         LET q == Len(heap) + 1
         IN  /\ Len(heap') = q
             /\ heap'[q].type = "question"
             /\ heap'[q].lineNumber = CurrentLine.lineNumber
             /\ IF HeadingsDone = {}
                THEN /\ doc'.rootQuestions = Append(doc.rootQuestions, q)
                     /\ \A a \in 1..Len(heap) : heap'[a] = heap[a]
                ELSE LET t == TopicOfLine(Max(HeadingsDone))
                     IN  /\ heap'[t].questions = Append(heap[t].questions, q)
                         /\ \A a \in (1..Len(heap)) \ {t} : heap'[a] = heap[a]
    /\ (Building /\ HeadingsDone # {}) => doc'.rootQuestions = doc.rootQuestions
    /\ RootQuestionsBeforeTopics'

C14_TopLevelQuestionOwner == [][C14_Step]_vars

\* a returned document with a root question and a question owned by a topic
\* that is not a top-level topic
C14_Witness ==
    /\ Returned
    /\ doc.rootQuestions # <<>>
    /\ \E t \in DocTopics \ Range(doc.topics) : heap[t].questions # <<>>

-----------------------------------------------------------------------------
(* C15: in every document parse returns, for any two questions a and b, the *)
(* number in a's id is smaller than the number in b's id exactly if a's     *)
(* source line number is smaller than b's.                                  *)

C15_IdOrderIsLineOrder ==
    Returned =>
      \A a, b \in DocQuestions :
         IdNumber(a) < IdNumber(b) <=> heap[a].lineNumber < heap[b].lineNumber

\* a returned document with root questions, a question below a condition,
\* and a topic that has questions of its own and in a child topic
C15_Witness ==
    /\ Returned
    /\ Cardinality(DocQuestions) >= 5
    /\ doc.rootQuestions # <<>>
    /\ \E f \in DocIfs : heap[f].children # <<>>
    /\ \E t \in DocTopics :
          /\ heap[t].questions # <<>>
          /\ \E c \in Range(heap[t].children) : heap[c].questions # <<>>

-----------------------------------------------------------------------------
(* Comparing the outcome of the run with the outcome of parse on another    *)
(* input                                                                    *)

\* how the run ended, in the form of the values of parseOf
RunOutcome ==
    IF Returned
    THEN [error |-> NoError, returned |-> TRUE, doc |-> result.doc, heap |-> heap]
    ELSE Threw(error)

\* the message of an error without its trailing " (line N)"
BareMessage(e) ==
    IF e = NoError THEN <<>>
    ELSE SubSeq(e.message, 1, Len(e.message) - 2 - Len(Digits(e.lineNumber)))

\* a node without its source line number
Unlined(node) == [node EXCEPT !.lineNumber = 0]

\* an outcome without source line numbers
Shape(o) ==
    [message |-> BareMessage(o.error), returned |-> o.returned, doc |-> o.doc,
     heap |-> [a \in 1..Len(o.heap) |-> Unlined(o.heap[a])]]

\* the run's outcome is the one parseOf computes for the run's own input
RunIsParseOf == Finished => RunOutcome = parseOf(markdown)

-----------------------------------------------------------------------------
(* C16: for a newline-terminated input, inserting one blank line (empty or  *)
(* of spaces only) before any line or at the end leaves the outcome of      *)
(* parse as it is, source line numbers apart: the same success or failure,  *)
(* the same error message up to its line number, the same tree with the     *)
(* same texts, answers, titles, levels and ids.  Insertions and deletions   *)
(* of any number of blank lines are chains of such steps.                   *)

\* the positions of the input at which a line starts or the input ends
LineStarts == {0} \cup {p \in 1..Len(markdown) : markdown[p] = "\n"}

InsertedBlanks == {<<>>, <<" ", " ", " ">>}

\* md with the line b inserted after the first p characters
WithLineAt(md, p, b) ==
    SubSeq(md, 1, p) \o b \o <<"\n">> \o SubSeq(md, p + 1, Len(md))

NewlineTerminated == markdown # <<>> /\ Last(markdown) = "\n"

BlankLinesChangeNothing ==
    \A p \in LineStarts : \A b \in InsertedBlanks :
       Shape(parseOf(WithLineAt(markdown, p, b))) = Shape(RunOutcome)

C16_BlankLinesAreNoOps ==
    []((Finished /\ NewlineTerminated) => BlankLinesChangeNothing)

\* a returned document whose input has blank lines between a question and
\* its condition and between that condition and its question
C16_Witness ==
    /\ Returned
    /\ \E q \in DocQuestions : \E f \in Range(heap[q].children) :
          /\ heap[f].lineNumber > heap[q].lineNumber + 1
          /\ \A k \in (heap[q].lineNumber + 1)..(heap[f].lineNumber - 1) :
                StripSpaces(lines[k]) = <<>>
          /\ \E c \in Range(heap[f].children) :
                /\ heap[c].lineNumber > heap[f].lineNumber + 1
                /\ heap[c].id = <<"Q", "2">>

-----------------------------------------------------------------------------
(* C17: for an input whose line terminators are all line feeds (no carriage *)
(* return stands before a line feed), parse of the input with every line    *)
(* feed replaced by carriage return + line feed has exactly the same        *)
(* outcome: the same tree, ids and line numbers, or the same error message  *)
(* and line number.                                                         *)

OnlyLineFeedTerminators ==
    \A k \in 1..(Len(markdown) - 1) : ~(markdown[k] = "\r" /\ markdown[k + 1] = "\n")

\* md with every line feed replaced by carriage return + line feed: its
\* segments between line feeds, joined again by the pair
WithCRLF(md) == Join(Split(md), <<"\r", "\n">>)

C17_CRLFSameOutcome ==
    (Finished /\ OnlyLineFeedTerminators) =>
      parseOf(WithCRLF(markdown)) = RunOutcome

\* a returned document of at least four line-feed terminated lines, with a
\* topic, a question and a condition
C17_Witness ==
    /\ Returned
    /\ OnlyLineFeedTerminators
    /\ Len(lines) >= 5
    /\ DocTopics # {}
    /\ DocIfs # {}
    /\ parseOf(WithCRLF(markdown)).returned

-----------------------------------------------------------------------------
(* Vocabulary for the output of toMermaid                                   *)

\* the positions of the newlines of the output, and the j-th of them; the
\* start and the end of the output count as the 0-th and the last
OutNewlines == {k \in 1..Len(mermaid.text) : mermaid.text[k] = "\n"}

NthNewline(j) ==
    IF j = 0 THEN 0
    ELSE IF j > Cardinality(OutNewlines) THEN Len(mermaid.text) + 1
    ELSE CHOOSE p \in OutNewlines : Cardinality({r \in OutNewlines : r < p}) = j - 1

\* the lines of the output: what stands between two newlines
OutLines ==
    [j \in 1..(Cardinality(OutNewlines) + 1) |->
        SubSeq(mermaid.text, NthNewline(j - 1) + 1, NthNewline(j) - 1)]

\* the question of the returned document that has the id Qk
QuestionNumbered(k) == CHOOSE q \in DocQuestions : heap[q].id = QId(k)

\* the (question, condition, child question) triples of the document
Triples ==
    {<<q, f, c>> \in DocQuestions \X DocIfs \X DocQuestions :
        f \in Range(heap[q].children) /\ c \in Range(heap[f].children)}

\* what one character of a node text becomes
EscapedChar(c) ==
    IF c = "\"" THEN <<"&", "q", "u", "o", "t", ";">>
    ELSE IF c = "<" THEN <<"&", "l", "t", ";">>
    ELSE IF c = ">" THEN <<"&", "g", "t", ";">>
    ELSE IF c = "[" THEN <<"#", "9", "1", ";">>
    ELSE IF c = "]" THEN <<"#", "9", "3", ";">>
    ELSE <<c>>

RECURSIVE Escaped(_)
Escaped(text) ==
    IF text = <<>> THEN <<>> ELSE EscapedChar(Head(text)) \o Escaped(Tail(text))

\* the line '    Qi["Q: <escaped text>"]' of the question q
DeclarationOf(q) ==
    <<" ", " ", " ", " ">> \o heap[q].id \o <<"[", "\"", "Q", ":", " ">>
    \o Escaped(heap[q].text) \o <<"\"", "]">>

\* the line '    Qs -->|<answer>| Qt' of a triple
EdgeOf(tr) ==
    <<" ", " ", " ", " ">> \o heap[tr[1]].id \o <<" ", "-", "-", ">", "|">>
    \o heap[tr[2]].answer \o <<"|", " ">> \o heap[tr[3]].id

-----------------------------------------------------------------------------
(* C18: for an accepted input the output of toMermaid is the line           *)
(* "graph TD", then for k = 1..n the declaration line of the question with  *)
(* id Qk, n the number of questions, then only edge lines; the lines are    *)
(* joined by single newlines and no newline ends the output.                *)

C18_HeaderNodesThenEdges ==
    mermaid.returned =>
      LET n == Cardinality(DocQuestions)
          out == OutLines
          edges == {EdgeOf(tr) : tr \in Triples}
      IN  /\ Len(out) >= n + 1
          /\ out[1] = <<"g", "r", "a", "p", "h", " ", "T", "D">>
          /\ \A k \in 1..n : out[k + 1] = DeclarationOf(QuestionNumbered(k))
          /\ \A k \in (n + 2)..Len(out) : out[k] \in edges
          /\ \A k \in 1..Len(out) : out[k] # <<>>
          /\ Last(mermaid.text) # "\n"

\* the output for a document with root questions, questions of topics and
\* nested questions: at least five declarations and two edges
C18_Witness ==
    /\ mermaid.returned
    /\ doc.rootQuestions # <<>>
    /\ DocTopics # {}
    /\ Cardinality(DocQuestions) >= 5
    /\ Len(OutLines) >= Cardinality(DocQuestions) + 3

-----------------------------------------------------------------------------
(* C19: the edge lines of the output of toMermaid are exactly one line      *)
(* '    Qs -->|<answer>| Qt' per (question, one of its conditions, one of   *)
(* that condition's child questions) triple, in ascending order of the      *)
(* target's id; no root or topic-level question is a target; a document     *)
(* without conditions has one declaration line per question and no edge.    *)

Targets == {tr[3] : tr \in Triples}

\* the triple whose target is the j-th of the targets in id order
TripleNumbered(j) ==
    CHOOSE tr \in Triples :
       Cardinality({t \in Targets : IdNumber(t) < IdNumber(tr[3])}) = j - 1

TopLevelQuestions ==
    Range(doc.rootQuestions) \cup UNION {Range(heap[t].questions) : t \in DocTopics}

C19_OneEdgePerTriple ==
    mermaid.returned =>
      LET n == Cardinality(DocQuestions)
          m == Cardinality(Triples)
          out == OutLines
      IN  /\ Cardinality(Targets) = m
          /\ Len(out) = 1 + n + m
          /\ \A j \in 1..m : out[1 + n + j] = EdgeOf(TripleNumbered(j))
          /\ Targets \cap TopLevelQuestions = {}
          /\ DocIfs = {} => Len(out) = 1 + n

\* the output for a document in which one question has two conditions with
\* child questions and a child question has a condition with a child of its
\* own
C19_Witness ==
    /\ mermaid.returned
    /\ \E q \in DocQuestions :
          /\ Len(heap[q].children) >= 2
          /\ \A f \in Range(heap[q].children) : heap[f].children # <<>>
    /\ \E tr \in Triples : tr[1] \in Targets
    /\ Len(OutLines) = 1 + Cardinality(DocQuestions) + Cardinality(Triples)

-----------------------------------------------------------------------------
(* C20: in the output of toMermaid the text of each declaration line is the *)
(* question's text with each " replaced by &quot;, < by &lt;, > by &gt;,    *)
(* [ by #91; and ] by #93; and every other character unchanged, and the     *)
(* label of each edge is the condition's answer character for character,    *)
(* whatever characters it contains.                                         *)

EscapedCharacters == {"\"", "<", ">", "[", "]"}

C20_EscapeNodesNotLabels ==
    mermaid.returned =>
      LET given == Range(OutLines)
      IN  /\ \A q \in DocQuestions : DeclarationOf(q) \in given
          /\ \A tr \in Triples : EdgeOf(tr) \in given

\* the output for a document whose root question's text and whose
\* condition's answer both hold characters that are escaped in node texts
C20_Witness ==
    /\ mermaid.returned
    /\ \E tr \in Triples :
          /\ Range(heap[tr[1]].text) \cap EscapedCharacters # {}
          /\ Range(heap[tr[2]].answer) \cap EscapedCharacters # {}
          /\ Range(heap[tr[3]].text) \cap EscapedCharacters # {}


-----------------------------------------------------------------------------
(* Vocabulary of the Ink output *)

\* the lines of a text: what stands between two "\n"
TextLines(t) ==
    LET newlines == {k \in 1..Len(t) : t[k] = "\n"}
        Nth(j) == IF j = 0 THEN 0
                  ELSE IF j > Cardinality(newlines) THEN Len(t) + 1
                  ELSE CHOOSE p \in newlines :
                           Cardinality({r \in newlines : r < p}) = j - 1
    IN  [j \in 1..(Cardinality(newlines) + 1) |->
            SubSeq(t, Nth(j - 1) + 1, Nth(j) - 1)]

InkLines == TextLines(ink.text)

\* a line '<spaces>+ <answer>'
IsChoiceLine(l) == StartsWith(Drop(l, CountLeading(l, " ")), <<"+", " ">>)

\* a line '<spaces>Q: <text>'
IsQuestionLine(l) == StartsWith(Drop(l, CountLeading(l, " ")), <<"Q", ":", " ">>)

-----------------------------------------------------------------------------
(* C21: in the output of toInk every choice line '+ <answer>' is            *)
(* immediately preceded by a blank line, the second and later sibling       *)
(* choices of a question included.                                          *)

C21_BlankBeforeEveryChoice ==
    ink.returned =>
        LET out == InkLines
        IN  \A k \in 1..Len(out) :
                IsChoiceLine(out[k]) => k > 1 /\ out[k - 1] = <<>>

\* the Q-nodes and IF-nodes of the document
InkNodes == DocQuestions \cup DocIfs

\* the place in the lines out of the node n: the non-blank lines, in order,
\* stand for the nodes in the order of their source lines
InkPos(out, n) ==
    LET filled == {p \in 1..Len(out) : out[p] # <<>>}
        before == Cardinality({m \in InkNodes :
                                  heap[m].lineNumber < heap[n].lineNumber})
    IN  CHOOSE p \in filled : Cardinality({r \in filled : r < p}) = before

Indent(l) == CountLeading(l, " ")

\* the number of IF-nodes above the Q-node q
IfAncestors(q) == Cardinality({f \in DocIfs : q \in QuestionsOfIf(heap, f)})

-----------------------------------------------------------------------------
(* C22: in the output of toInk a question with at least one condition is    *)
(* followed by exactly one blank line right after its own line, then for    *)
(* each condition in order one choice line at the indent of the question    *)
(* followed by the condition's child questions one level deeper; no blank   *)
(* line follows a question without conditions, so there are as many blank   *)
(* lines as questions with at least one condition.                          *)

-----------------------------------------------------------------------------
(* C23: in the output of toInk the line of a question with d IF-node        *)
(* ancestors is exactly 4*d spaces, 'Q: ' and its text as it is; root       *)
(* questions and the questions of topics at any heading depth have d = 0,   *)
(* so heading nesting never adds indentation.                               *)

C23_IndentIsFourPerIfAncestor ==
    ink.returned =>
      LET out == InkLines
      IN  /\ Len(out) >= Cardinality(InkNodes)
          /\ \A q \in DocQuestions :
               out[InkPos(out, q)]
                 = Rep(" ", 4 * IfAncestors(q)) \o <<"Q", ":", " ">> \o heap[q].text
          /\ \A q \in Range(doc.rootQuestions)
                      \cup UNION {Range(heap[t].questions) : t \in DocTopics} :
               IfAncestors(q) = 0 /\ Indent(out[InkPos(out, q)]) = 0

\* the output for a document with a question below two conditions and a
\* question of a topic that is not a top-level topic
C23_Witness ==
    /\ ink.returned
    /\ \E q \in DocQuestions : IfAncestors(q) >= 2
    /\ \E t \in DocTopics \ Range(doc.topics) : heap[t].questions # <<>>

-----------------------------------------------------------------------------
(* C24: toMermaid and toInk fail on exactly the inputs on which parse       *)
(* fails, with the error message and line number of parse, and then give no *)
(* output text at all; on every input parse accepts, both return output.    *)

\* the call of a converter has ended
Called(out) == out # NoOutput

\* a converter ended as parse does on the same input
EndsAsParse(out) ==
    LET p == parseOf(markdown)
    IN  /\ out.returned <=> p.returned
        /\ out.error = p.error
        /\ out.error # NoError <=> ~out.returned
        /\ ~p.returned => out.text = <<>>

C24_ConvertersFailAsParse ==
    /\ Called(mermaid) => EndsAsParse(mermaid)
    /\ Called(ink) => EndsAsParse(ink)

\* both converters were called on an input that parse rejects at some line
C24_Witness ==
    /\ Called(mermaid) /\ Called(ink)
    /\ Failed /\ error.lineNumber > 0
    /\ mermaid.error = error /\ ink.error = error

-----------------------------------------------------------------------------
(* C25: every error of parse has a line number N and a displayed message    *)
(* that is the underlying message followed by ' (line N)'; N is 0 exactly   *)
(* for the document-level errors (empty document, no question anywhere,     *)
(* missing final newline) and otherwise the 1-indexed number, between 1 and *)
(* the number of input lines, of the line that triggered the error.         *)

\* ' (line N)'
LineSuffix(N) == <<" (line ">> \o Digits(N) \o <<")">>

\* the displayed message of e without its last Len(LineSuffix(N)) pieces
Underlying(e) ==
    SubSeq(e.message, 1, Len(e.message) - Len(LineSuffix(e.lineNumber)))

DocumentLevelMessages == {MsgNoQNode, MsgNoNewline}

\* the lines of the input; the piece after the final newline is no line
InputLines == Front(Split(ReplaceCRLF(markdown)))

\* the error was triggered by line N of the input
TriggeredBy(N) ==
    IF Underlying(error) = MsgTabs
    THEN HasTab(InputLines[N]) /\ \A k \in 1..(N - 1) : ~HasTab(InputLines[k])
    ELSE IF Underlying(error) \in StructuralMessages
    THEN i < Len(parsed) /\ parsed[i + 1].lineNumber = N
    ELSE pc = "error" /\ i = N - 1 /\ parseLinesBody(lines, i).error = error

C25_ErrorLineNumber ==
    Failed =>
      LET N == error.lineNumber
      IN  /\ N >= 0
          /\ Len(error.message) > Len(LineSuffix(N))
          /\ error.message = Underlying(error) \o LineSuffix(N)
          /\ N = 0 <=> Underlying(error) \in DocumentLevelMessages
          /\ N = 0 =>
               \/ markdown = <<>> /\ Underlying(error) = MsgNoQNode
               \/ markdown # <<>> /\ ~EndsWithNewline(markdown)
                    /\ Underlying(error) = MsgNoNewline
               \/ PassesPreChecks /\ NoQNode(heap, doc)
                    /\ Underlying(error) = MsgNoQNode
          /\ N # 0 => N \in 1..Len(InputLines) /\ TriggeredBy(N)

\* a structural failure at a line that is not the first, after a blank line
C25_Witness ==
    /\ Failed
    /\ error.lineNumber >= 2
    /\ Underlying(error) \in StructuralMessages
    /\ \E k \in 1..i : parsed[k].type = "blank"

-----------------------------------------------------------------------------
(* C26: parse is deterministic and keeps no state between calls: a call     *)
(* with the input of an earlier call, whatever was parsed in between, ends  *)
(* as that call did (the same tree shape, texts, line numbers and ids, or   *)
(* the same error), and the numbering starts again at Q1 in every call.     *)

\* the first Q-node in the order of assignQuestionIds of a returned outcome
FirstQuestion(o) ==
    IF o.doc.rootQuestions # <<>> THEN Head(o.doc.rootQuestions)
    ELSE CHOOSE q \in 1..Len(o.heap) :
             /\ o.heap[q].type = "question"
             /\ \A r \in 1..Len(o.heap) :
                    o.heap[r].type = "question"
                        => o.heap[q].lineNumber <= o.heap[r].lineNumber

StartsAtQ1(o) == o.returned => o.heap[FirstQuestion(o)].id = QId(1)

-----------------------------------------------------------------------------
(* C27: every topic in the 'topics' sequence of a returned document is a    *)
(* '#' heading, that is, has heading level 1; headings of level 2 to 6      *)
(* appear only as descendants of some topic.                                *)

C27_TopLevelTopicsAreLevelOne ==
    Returned =>
      /\ \A t \in Range(doc.topics) : heap[t].level = 1
      /\ \A t \in DocTopics :
           heap[t].level >= 2 =>
             \E u \in DocTopics : t \in TopicsUnder(heap, u) \ {u}

-----------------------------------------------------------------------------
(* C28: a list item whose content holds a bold marker that is not at the    *)
(* start of the content, as in '- Text with **bold** inside', fails with    *)
(* 'Bold marker must appear at start of list item content' at that line.    *)

MsgBoldNotAtStart == <<"Bold marker must appear at start of list item content">>

\* the content of a list-item line: what follows the spaces and "- "
ContentOf(line) == Drop(line, LeadingSpaces(line) + 2)

\* the content holds "**", and not at its start
BoldNotAtStart(content) ==
    /\ HasDoubleAsterisk(content)
    /\ ~StartsWith(content, <<"*", "*">>)

C28_BoldNotAtStartRejected ==
    (Finished /\ PassesPreChecks) =>
      \A k \in 1..Len(lines) :
        ( /\ IsListItemLine(lines[k])
          /\ LeadingSpaces(lines[k]) % 2 = 0
          /\ BoldNotAtStart(ContentOf(lines[k]))
          /\ \A j \in 1..(k - 1) : LexError(j) = NoError )
        => FailsWith(MsgBoldNotAtStart, k)

-----------------------------------------------------------------------------
(* C29: a heading closes the whole open question/condition chain: when      *)
(* every line classifies, a question or condition line at indent N > 0 that *)
(* buildAST reaches with no indent-0 question since the start of the        *)
(* document or since the most recent heading fails at that line with the    *)
(* orphan error ('Q-node at non-zero indent must have a parent' for a       *)
(* question, 'IF-node must have a parent Q-node' for a condition); it is    *)
(* never attached to a question that precedes the heading, and the orphan   *)
(* errors arise in no other situation.                                      *)

\* the lines processed so far hold an indent-0 question with no heading
\* after it
TopLevelQuestionOpen ==
    \E j \in 1..i :
        /\ parsed[j].type = "question" /\ parsed[j].level = 0
        /\ \A m \in (j + 1)..i : parsed[m].type # "heading"

\* the line about to be processed is a nested line without an open chain
OrphanLine ==
    /\ CurrentLine.type \in {"question", "if"}
    /\ CurrentLine.level > 0
    /\ ~TopLevelQuestionOpen

OrphanMessage(type) == IF type = "question" THEN MsgOrphanQ ELSE MsgOrphanIf

C29_Step ==
    LET OrphanError ==
            /\ pc # "error" /\ pc' = "error"
            /\ \E m \in {MsgOrphanQ, MsgOrphanIf} :
                   error' = ParseError(m, error'.lineNumber)
    IN  /\ Building =>
             /\ OrphanLine =>
                  /\ pc' = "error"
                  /\ error' = ParseError(OrphanMessage(CurrentLine.type),
                                         CurrentLine.lineNumber)
                  /\ \A a \in 1..Len(heap) : heap'[a] = heap[a]
                  /\ doc' = doc
             /\ OrphanError => OrphanLine
        /\ ~Building => ~OrphanError

C29_OrphanAfterHeading == [][C29_Step]_vars

\* a nested line right after a heading was rejected as an orphan although an
\* indent-0 question with a condition stands before the heading
C29_Witness ==
    /\ Failed
    /\ i < Len(parsed)
    /\ i >= 3
    /\ error = ParseError(OrphanMessage(CurrentLine.type), CurrentLine.lineNumber)
    /\ parsed[i].type = "heading"
    /\ \E j \in 1..(i - 1) : parsed[j].type = "question" /\ parsed[j].level = 0
    /\ \E j \in 1..(i - 1) : parsed[j].type = "if"

-----------------------------------------------------------------------------
(* C30: for a non-empty input that ends with a newline and has a tab in     *)
(* some line, parse fails with 'Tabs are not allowed; use spaces only' and  *)
(* the line number of the lowest-numbered line that holds a tab, even when  *)
(* a lower-numbered line is lexically invalid or breaks a structural rule.  *)

\* the number of the line that holds the first tab of the input: one more
\* than the number of newlines before it
FirstTabLine ==
    LET tab == Min({k \in 1..Len(markdown) : markdown[k] = "\t"})
    IN  1 + Cardinality({k \in 1..(tab - 1) : markdown[k] = "\n"})

C30_TabReportedFirst ==
    ( /\ Finished
      /\ markdown # <<>>
      /\ Last(markdown) = "\n"
      /\ "\t" \in Range(markdown) )
    => FailsWith(MsgTabs, FirstTabLine)

\* a tab in the second line was reported although the first line is not a
\* valid line, or is a condition at indent 0
C30_Witness ==
    /\ FailsWith(MsgTabs, 2)
    /\ LET first == parseLinesBody(Split(ReplaceCRLF(markdown)), 0)
       IN  \/ first.error # NoError
           \/ \E pl \in Range(first.push) : pl.type = "if" /\ pl.level = 0

-----------------------------------------------------------------------------
(* C31: after every line buildAST has processed without error, the node     *)
(* stack is empty or its bottom entry is a Q-node of indent level 0; the    *)
(* indent levels strictly increase from bottom to top; the kinds alternate  *)
(* question, condition, question, ... from the bottom; each entry above the *)
(* bottom is the most recently added child of the entry right below it;     *)
(* after an indent-0 question the stack holds exactly that question, and    *)
(* after a heading it is empty.                                             *)

\* buildAST is between two lines, or has returned
LinesBuilt == pc \in {"buildAST", "validate", "assign", "done"}

\* the kind of the k-th entry of an alternating chain that starts with a
\* question
KindAt(k) == IF k % 2 = 1 THEN "question" ELSE "if"

C31_NodeStackShape ==
    LinesBuilt =>
      /\ nodeStack # <<>> =>
           /\ heap[nodeStack[1].node].type = "question"
           /\ nodeStack[1].indentLevel = 0
      /\ \A k \in 1..Len(nodeStack) :
           /\ heap[nodeStack[k].node].type = KindAt(k)
           /\ k > 1 =>
                /\ nodeStack[k - 1].indentLevel < nodeStack[k].indentLevel
                /\ heap[nodeStack[k - 1].node].children # <<>>
                /\ Last(heap[nodeStack[k - 1].node].children) = nodeStack[k].node
      /\ (i >= 1 /\ i <= Len(parsed)) =>
           /\ (parsed[i].type = "question" /\ parsed[i].level = 0) =>
                /\ Len(nodeStack) = 1
                /\ heap[nodeStack[1].node].lineNumber = parsed[i].lineNumber
           /\ parsed[i].type = "heading" => nodeStack = <<>>

\* three open nodes, the condition among them being the second condition of
\* the bottom question: deeper entries had been discarded before
C31_Witness ==
    /\ pc = "buildAST"
    /\ Len(nodeStack) >= 3
    /\ Len(heap[nodeStack[1].node].children) >= 2
    /\ \E k \in 1..i : parsed[k].type = "heading"

-----------------------------------------------------------------------------
(* C32: after every line buildAST has processed, the heading levels         *)
(* strictly increase from the bottom of the topic stack to its top; the     *)
(* bottom entry is one of the document's top-level topics; each entry above *)
(* the bottom is the last child topic of the entry right below it; and once *)
(* a heading has been processed the current topic is the top of the topic   *)
(* stack, which is the topic of the most recent heading.                    *)

\* the heading lines among the lines processed so far
HeadingsBuilt == {k \in 1..Min({i, Len(parsed)}) : parsed[k].type = "heading"}

C32_TopicStackShape ==
    LinesBuilt =>
      /\ topicStack # <<>> => topicStack[1] \in Range(doc.topics)
      /\ \A k \in 2..Len(topicStack) :
           /\ heap[topicStack[k - 1]].level < heap[topicStack[k]].level
           /\ heap[topicStack[k - 1]].children # <<>>
           /\ Last(heap[topicStack[k - 1]].children) = topicStack[k]
      /\ IF HeadingsBuilt = {}
         THEN topicStack = <<>> /\ currentTopic = 0
         ELSE /\ topicStack # <<>>
              /\ currentTopic = Last(topicStack)
              /\ heap[currentTopic].type = "topic"
              /\ heap[currentTopic].lineNumber
                   = parsed[Max(HeadingsBuilt)].lineNumber

\* two open topics after a deeper or equal one had been closed: the top is
\* the second child of the bottom topic
C32_Witness ==
    /\ pc = "buildAST"
    /\ Len(topicStack) = 2
    /\ Len(heap[topicStack[1]].children) >= 2

-----------------------------------------------------------------------------
(* C33: an accepted input is represented exactly once, as a strict tree:    *)
(* the returned document has exactly one topic per heading line, one Q-node *)
(* per question line and one IF-node per condition line, each with the      *)
(* 1-indexed number of its source line; every node has exactly one parent   *)
(* or container; every child's line number is greater than its parent's;    *)
(* and every children / questions / topics sequence is in strictly          *)
(* increasing line-number order.                                            *)

\* the type of the node made from a classified line
NodeTypeOf(lineType) == IF lineType = "heading" THEN "topic" ELSE lineType

\* the sequences of the document and of its nodes that hold references
Containers ==
    {doc.rootQuestions, doc.topics}
    \cup {heap[t].children : t \in DocTopics}
    \cup {heap[t].questions : t \in DocTopics}
    \cup {heap[n].children : n \in DocQuestions \cup DocIfs}

\* the places that hold a reference to the node n: <<owner, field, index>>,
\* owner 0 for the document
PlacesOf(n) ==
    {<<0, "rootQuestions", k>> : k \in {k \in 1..Len(doc.rootQuestions) :
                                           doc.rootQuestions[k] = n}}
    \cup {<<0, "topics", k>> : k \in {k \in 1..Len(doc.topics) : doc.topics[k] = n}}
    \cup UNION {{<<a, "children", k>> : k \in {k \in 1..Len(heap[a].children) :
                                                  heap[a].children[k] = n}} :
                a \in 1..Len(heap)}
    \cup UNION {{<<a, "questions", k>> : k \in {k \in 1..Len(heap[a].questions) :
                                                   heap[a].questions[k] = n}} :
                a \in {a \in 1..Len(heap) : heap[a].type = "topic"}}

\* the nodes a node refers to
ChildrenOf(a) ==
    Range(heap[a].children)
    \cup (IF heap[a].type = "topic" THEN Range(heap[a].questions) ELSE {})

StrictlyAscending(refs) ==
    \A k \in 1..(Len(refs) - 1) :
        heap[refs[k]].lineNumber < heap[refs[k + 1]].lineNumber

C33_StrictTree ==
    Returned =>
      /\ AttachedNodes = 1..Len(heap)
      /\ \A k \in 1..Len(parsed) :
           /\ parsed[k].lineNumber = k
           /\ parsed[k].type # "blank" =>
                /\ Cardinality({n \in AttachedNodes : heap[n].lineNumber = k}) = 1
                /\ \A n \in AttachedNodes :
                     heap[n].lineNumber = k =>
                       heap[n].type = NodeTypeOf(parsed[k].type)
      /\ \A n \in AttachedNodes :
           /\ heap[n].lineNumber \in 1..Len(parsed)
           /\ parsed[heap[n].lineNumber].type # "blank"
           /\ Cardinality(PlacesOf(n)) = 1
           /\ \A c \in ChildrenOf(n) : heap[c].lineNumber > heap[n].lineNumber
      /\ \A refs \in Containers : StrictlyAscending(refs)

\* a returned document with two top-level topics, a child topic and an
\* IF-node that has two child questions, from an input with a blank line
C33_Witness ==
    /\ Returned
    /\ \E k \in 1..(Len(parsed) - 1) : parsed[k].type = "blank"
    /\ Len(doc.topics) >= 2
    /\ \E t \in DocTopics : heap[t].children # <<>>
    /\ \E f \in DocIfs : Len(heap[f].children) >= 2

-----------------------------------------------------------------------------
(* C34: for an accepted input the output of toInk has exactly one question  *)
(* line per Q-node and one choice line per IF-node; the question lines      *)
(* appear in ascending id order; each choice line comes after the line of   *)
(* its parent question and before the lines of its own child questions; the *)
(* lines are joined by single newlines, with no trailing newline.           *)

\* the place of the n-th line, counted from 1, among the places ps
NthOf(ps, n) == CHOOSE p \in ps : Cardinality({r \in ps : r < p}) = n - 1

\* a line without its indentation
Unindented(l) == Drop(l, Indent(l))

\* the number of IF-nodes whose source line is above the one of f, plus one
IfRank(f) ==
    1 + Cardinality({g \in DocIfs : heap[g].lineNumber < heap[f].lineNumber})

C34_InkLinesInIdOrder ==
    ink.returned =>
      LET out == InkLines
          qs == {p \in 1..Len(out) : IsQuestionLine(out[p])}
          cs == {p \in 1..Len(out) : IsChoiceLine(out[p])}
          QAt(q) == NthOf(qs, IdNumber(q))
          CAt(f) == NthOf(cs, IfRank(f))
          newlines == {k \in 1..Len(ink.text) : ink.text[k] = "\n"}
      IN  /\ Cardinality(qs) = Cardinality(DocQuestions)
          /\ Cardinality(cs) = Cardinality(DocIfs)
          /\ \A q \in DocQuestions :
               /\ Unindented(out[QAt(q)]) = <<"Q", ":", " ">> \o heap[q].text
               /\ \A f \in Range(heap[q].children) :
                    /\ Unindented(out[CAt(f)]) = <<"+", " ">> \o heap[f].answer
                    /\ QAt(q) < CAt(f)
                    /\ \A c \in Range(heap[f].children) :
                         /\ CAt(f) < QAt(c)
                         /\ Indent(out[QAt(c)]) > Indent(out[CAt(f)])
                    /\ \A g \in Range(heap[q].children) :
                         heap[f].lineNumber < heap[g].lineNumber =>
                           \A c \in QuestionsOfIf(heap, f) : QAt(c) < CAt(g)
          /\ ink.text # <<>>
          /\ Head(ink.text) # "\n" /\ Last(ink.text) # "\n"
          /\ Cardinality(newlines) + 1
               = Cardinality(DocQuestions) + Cardinality(DocIfs)
                 + Cardinality({q \in DocQuestions : heap[q].children # <<>>})

\* the output for a document with root questions and topic questions, some
\* of them with conditions and follow-up questions
C34_Witness ==
    /\ ink.returned
    /\ \E q \in Range(doc.rootQuestions) : ChildQuestions(heap, q) # {}
    /\ \E t \in DocTopics : \E q \in Range(heap[t].questions) :
          ChildQuestions(heap, q) # {}
    /\ \E t \in DocTopics : \E q \in Range(heap[t].questions) :
          heap[q].children = <<>>

-----------------------------------------------------------------------------
(* C35: a topic never gains a direct question after one of its child topics *)
(* has been created: every indent-0 question goes to the topic of the most  *)
(* recent heading only, so all direct questions of a topic, and their       *)
(* descendants, have line numbers smaller than the line number of each of   *)
(* that topic's child topics, and a question after a sub-heading is never   *)
(* given to the enclosing topic of lower level number.                      *)

\* the topics created so far
TopicsBuilt == {t \in 1..Len(heap) : heap[t].type = "topic"}

\* the line number of the last heading above line n, 0 without one
LastHeadingAbove(n) ==
    Max({0} \cup {heap[t].lineNumber : t \in {u \in TopicsBuilt :
                                                 heap[u].lineNumber < n}})

C35_QuestionsBeforeChildTopics ==
    LinesBuilt =>
      \A t \in TopicsBuilt :
        /\ \A q \in Range(heap[t].questions) :
             LastHeadingAbove(heap[q].lineNumber) = heap[t].lineNumber
        /\ \A q \in QuestionsOf(heap, heap[t].questions) :
             \A c \in Range(heap[t].children) :
                heap[q].lineNumber < heap[c].lineNumber

\* a topic with a direct question that has a follow-up question, a child
\* topic with a question of its own, and a later topic at the first level
C35_Witness ==
    /\ Returned
    /\ \E t \in DocTopics :
          /\ \E q \in Range(heap[t].questions) : ChildQuestions(heap, q) # {}
          /\ \E c \in Range(heap[t].children) : heap[c].questions # <<>>
          /\ \E u \in DocTopics :
                /\ heap[u].lineNumber > heap[t].lineNumber
                /\ heap[u].level <= heap[t].level
                /\ heap[u].questions # <<>>

-----------------------------------------------------------------------------
(* C36: headings do not influence the rendered output *)

\* md without its heading lines: the lines of md that are not matched as a
\* heading, joined again by line feeds
WithoutHeadings(md) ==
    Join(SelectSeq(Split(ReplaceCRLF(md)), LAMBDA l : HeadingMatch(l) = <<>>),
         LF)

\* C36: when parse returned a document for the input, parse also returns a
\* document for the input without its heading lines, and whatever toMermaid
\* and toInk returned for the input is the text generated from that document
C36_HeadingsDoNotRender ==
    Returned =>
      LET p == parseOf(WithoutHeadings(markdown))
      IN  /\ p.returned
          /\ mermaid.returned => mermaid.text = generateMermaid(p.heap, p.doc)
          /\ ink.returned => ink.text = generateInk(p.heap, p.doc)

\* both converters returned for a document with a root question, a topic
\* with a question and a child topic with a question
C36_Witness ==
    /\ Returned
    /\ mermaid.returned
    /\ ink.returned
    /\ WithoutHeadings(markdown) # markdown
    /\ doc.rootQuestions # <<>>
    /\ \E t \in DocTopics :
         /\ heap[t].questions # <<>>
         /\ \E c \in Range(heap[t].children) : heap[c].questions # <<>>

-----------------------------------------------------------------------------
(* C37: the escaped text of a Mermaid node declaration *)

\* the declaration line of the question q in the output of toMermaid: the
\* line after "graph TD" and the declarations of the questions numbered
\* before q
DeclarationLine(q) == OutLines[IdNumber(q) + 1]

\* where the label of a declaration line opens: the '"' after '    Qk['
LabelOpens(q) == 4 + Len(heap[q].id) + 2

\* what stands between '"Q: ' and the closing '"]' of a declaration line
LabelText(q) ==
    SubSeq(DeclarationLine(q), LabelOpens(q) + 4, Len(DeclarationLine(q)) - 2)

\* how many times the character c stands in s
Occurrences(s, c) == Cardinality({k \in 1..Len(s) : s[k] = c})

\* C37: in the output of toMermaid, for every question: the label text of
\* its declaration line has none of the characters " < > [ ]; after the
\* opening '"' the pair '"]' stands at the end of the line and nowhere else;
\* the label text is longer than the question's text by exactly five
\* characters per " and three per < > [ ], so that nothing a replacement put
\* there was replaced again; and a text with none of the five characters is
\* the label text as it is.
C37_EscapedTextIsClean ==
    mermaid.returned =>
      \A q \in DocQuestions :
         LET line == DeclarationLine(q)
             label == LabelText(q)
             text == heap[q].text
         IN  /\ line[LabelOpens(q)] = "\""
             /\ Range(label) \cap EscapedCharacters = {}
             /\ {k \in (LabelOpens(q) + 1)..(Len(line) - 1) :
                    line[k] = "\"" /\ line[k + 1] = "]"} = {Len(line) - 1}
             /\ Len(label) = Len(text) + 5 * Occurrences(text, "\"")
                             + 3 * (Occurrences(text, "<") + Occurrences(text, ">")
                                    + Occurrences(text, "[") + Occurrences(text, "]"))
             /\ Range(text) \cap EscapedCharacters = {} => label = text

\* the output for a document with a question whose text has an ampersand and
\* none of the five characters, and a question whose text has '"' followed
\* by ']'
C37_Witness ==
    /\ mermaid.returned
    /\ \E q \in DocQuestions :
          /\ "&" \in Range(heap[q].text)
          /\ Range(heap[q].text) \cap EscapedCharacters = {}
    /\ \E q \in DocQuestions :
          \E k \in 1..(Len(heap[q].text) - 1) :
             heap[q].text[k] = "\"" /\ heap[q].text[k + 1] = "]"

-----------------------------------------------------------------------------
(* C38: parse finishes, and what it spends on the way *)

\* parseLines returned: it classified every line but the empty one after the
\* final newline
AllClassified == lines # <<>> /\ Len(parsed) = Len(lines) - 1

\* the parsed lines the builder has consumed: the line at which it threw is
\* one of them
Consumed ==
    IF pc \in {"buildAST", "validate", "assign", "done"} THEN 1..i
    ELSE IF pc = "error" /\ AllClassified
    THEN 1..(IF i < Len(parsed) THEN i + 1 ELSE i)
    ELSE {}

\* the pushes on the two stacks so far: one per consumed heading on the topic
\* stack, at most one per consumed question or condition on the node stack
TopicPushes == Cardinality({k \in Consumed : parsed[k].type = "heading"})

NodePushes == Cardinality({k \in Consumed : parsed[k].type \in {"question", "if"}})

\* s is t without some of its last elements
IsPrefix(s, t) == Len(s) <= Len(t) /\ s = SubSeq(t, 1, Len(s))

\* what one step of parse does to its counters and stacks: parseLines
\* classifies the line after the last one classified and no other, the
\* builder consumes the line after the last one consumed and no other, and a
\* stack after the step is what was left of it after removing some of its
\* elements, with at most one element pushed on top, pushed only for a line
\* of the stack's kind
C38_Step ==
    /\ pc = "parseLines" =>
         /\ IsPrefix(parsed, parsed')
         /\ Len(parsed') <= Len(parsed) + 1
         /\ pc' = "parseLines" => (i' = i + 1 /\ Len(parsed') = i')
         /\ pc' = "error" => (i' = i /\ parsed' = parsed)
         /\ pc' = "buildAST" => (i' = 0 /\ AllClassified')
    /\ (pc = "buildAST" /\ i < Len(parsed)) =>
         /\ parsed' = parsed
         /\ pc' # "error" => i' = i + 1
         /\ pc' = "error" => i' = i
         /\ \/ IsPrefix(topicStack', topicStack)
            \/ /\ parsed[i + 1].type = "heading"
               /\ IsPrefix(Front(topicStack'), topicStack)
               /\ Last(topicStack') \notin Range(topicStack)
         /\ \/ IsPrefix(nodeStack', nodeStack)
            \/ /\ parsed[i + 1].type \in {"question", "if"}
               /\ IsPrefix(Front(nodeStack'), nodeStack)
               /\ Last(nodeStack') \notin Range(nodeStack)
    /\ pc \notin {"parseLines", "buildAST"} =>
         /\ UNCHANGED <<i, parsed, topicStack, nodeStack>>
    /\ Finished => UNCHANGED <<pc, error, result, heap, doc>>

\* what is left on a stack is never more than what was pushed on it, so that
\* the removals are never more than the pushes, and the pushes on the two
\* stacks together are never more than the lines of the input
C38_Bounds ==
    /\ Len(topicStack) <= TopicPushes
    /\ Len(nodeStack) <= NodePushes
    /\ TopicPushes + NodePushes <= Len(lines)
    /\ Len(parsed) <= Len(lines)
    /\ ~(Returned /\ Failed)
    /\ Returned <=> result.returned
    /\ Failed => error # NoError

\* C38: every call of parse finishes, with a returned document or with one
\* error and never both; on the way each line is classified once at most and
\* consumed by the builder once at most, each stack loses no more elements
\* than were pushed on it, and no more elements are pushed than the input
\* has lines.
C38_ParseTerminates ==
    /\ <>Finished
    /\ [][C38_Step]_vars
    /\ []C38_Bounds

\* parse returned after both pop loops removed elements: there are two
\* top-level topics, so the second heading popped the first, and a condition
\* has two child questions, so the second popped the first; a blank line was
\* passed over
C38_Witness ==
    /\ Returned
    /\ Len(doc.topics) >= 2
    /\ \E f \in DocIfs : Len(heap[f].children) >= 2
    /\ \E k \in 1..(Len(parsed) - 1) : parsed[k].type = "blank"
    /\ Len(topicStack) < TopicPushes
    /\ Len(nodeStack) + 2 <= NodePushes

=========================================================================
